---- MODULE Spec2Model ----
(***************************************************************************)
(* A model of the DomeKit runtime: the tool-calling orchestrator           *)
(* (runtime/tool_router.py), the policy engine's tool check                *)
(* (runtime/policy.py), the Ollama adapter's reply conversion              *)
(* (runtime/model_adapters/ollama.py), the JSONL audit logger              *)
(* (runtime/audit/logger.py), the polling tail and the audit readers      *)
(* (runtime/audit/query.py), the policy engine's data check, and the       *)
(* built-in tools read_file, sql_query and write_file (runtime/tools).     *)
(***************************************************************************)
EXTENDS Integers, Sequences, FiniteSets, TLC

VARIABLES
    manifest,     \* the Manifest loaded at startup (policy mode, tools.allow)
    run,          \* run[r]: the locals of ToolRouter.run for request r
    log,          \* the audit file as the sequence of entries appended by the router
    origin,       \* bookkeeping, parallel to log: the directive an entry was written for
    invoked,      \* bookkeeping: the directives whose tool.run was awaited
    chat_calls,   \* bookkeeping: chat_calls[r] = the messages adapter.chat returned to r
    limit,        \* the part of the behaviours explored: requests started, adapter calls
    client_messages, \* the message list the clients send in their ChatRequest
    mcp,          \* the locals of mcp_server._run_tool and the calls started so far
    file,         \* the audit file as the bytes on disk (logger and tail)
    lock,         \* JsonlAuditLogger._lock: the thread holding it, or NoThread
    th,           \* th[t]: thread t inside JsonlAuditLogger.log
    tail,         \* the locals of one stream_tail generator
    logged,       \* bookkeeping: the entries handed to log, in order
    reply,        \* the last call of a reader, the policy engine or a tool, with its result
    disk,         \* the filesystem the tools work on: its files and directories
    posted        \* the adapter's chat calls whose payload is posted and not yet answered

routerVars == <<manifest, run, log, origin, invoked, chat_calls, limit, client_messages, mcp>>

fileVars == <<file, lock, th, tail>>

callVars == <<logged, reply, disk, posted>>

vars == <<manifest, run, log, origin, invoked, chat_calls, limit, client_messages, mcp,
          file, lock, th, tail, logged, reply, disk, posted>>

----------------------------------------------------------------------------
(* Bounds of the exploration *)

\* Adapter calls explored over all requests together, when several are in flight.
MaxCalls == 2

\* The requests explored, numbered in order of arrival; they may be in flight
\* at the same time.
Requests == {1, 2}

\* Tool calls made over MCP while a request is served.
MaxMcp == 1

----------------------------------------------------------------------------
(* Values *)

\* Python's None for an optional string field.
None == "<None>"

\* Values that carry their kind: a string (its characters), an integer,
\* None, a key that is not there.
Str(chars) == [kind |-> "str", chars |-> chars]

IntVal(n) == [kind |-> "int", n |-> n]

Null == [kind |-> "none"]

Unset == [kind |-> "unset"]

\* A JSON list, and the test isinstance(args, dict): the argument objects of
\* the router's directives are maps from keys to values, every other value
\* carries its kind.
List(items) == [kind |-> "list", items |-> items]

IsDict(v) == IF "kind" \notin DOMAIN v THEN TRUE ELSE v.kind = "obj"

\* tool_router.py:27
MAX_ITERATIONS == 5

\* registry.py:57-67: the tools create_default_registry registers.
Registered == {"sql_query", "read_file", "write_file", "vector_search", "vector_manage"}

\* The arguments each tool's run reads with args[key] before anything else
\* (read_file.py:32, sql_query.py:34-35, write_file.py:33-34,
\* vector_search.py:61, vector_manage.py:61-62).
RequiredArgs ==
    [sql_query     |-> {"db_path", "query"},
     read_file     |-> {"path"},
     write_file    |-> {"path", "content"},
     vector_search |-> {"collection"},
     vector_manage |-> {"collection", "operation"}]

\* The argument a tool hands to Path(...).resolve() outside its try block.
ResolvedArg == [sql_query |-> "db_path", read_file |-> "path", write_file |-> "path"]

\* A path that holds a NUL character: resolve() raises ValueError on it.
NulPath == "/tmp/<NUL>"

EmptyDict == [k \in {} |-> ""]

\* An object of the model: a map from keys to values.
Obj(fields) == [kind |-> "obj", fields |-> fields]

Bool(b) == [kind |-> "bool", b |-> b]

\* Python's == on two values: a boolean is the number 1 or 0, lists and
\* objects are compared member by member, values of other kinds are equal
\* when they are the same.
IsNumber(v) == v.kind \in {"int", "bool"}

NumberOf(v) == IF v.kind = "int" THEN v.n ELSE IF v.b THEN 1 ELSE 0

RECURSIVE PyEq(_, _)
PyEq(a, b) ==
    IF IsNumber(a) /\ IsNumber(b) THEN NumberOf(a) = NumberOf(b)
    ELSE IF a.kind # b.kind THEN FALSE
    ELSE IF a.kind = "list"
    THEN /\ Len(a.items) = Len(b.items)
         /\ \A i \in 1 .. Len(a.items) : PyEq(a.items[i], b.items[i])
    ELSE IF a.kind = "obj"
    THEN /\ DOMAIN a.fields = DOMAIN b.fields
         /\ \A k \in DOMAIN a.fields : PyEq(a.fields[k], b.fields[k])
    ELSE a = b

\* Python truthiness of a value.
Truthy(v) ==
    IF v.kind = "obj" THEN DOMAIN v.fields # {}
    ELSE IF v.kind = "list" THEN Len(v.items) > 0
    ELSE IF v.kind = "int" THEN v.n # 0
    ELSE IF v.kind = "str" THEN v.chars # ""
    ELSE IF v.kind = "bool" THEN v.b
    ELSE FALSE

\* d.get(key) of an argument map: None when the key is absent.
ArgGet(args, key) == IF key \in DOMAIN args THEN args[key] ELSE Null

\* The manifests explored: policy mode and policy.tools.allow.
Manifests ==
    { [policy_mode |-> "local_only", allow |-> {"read_file"}],
      [policy_mode |-> "local_only", allow |-> {"read_file", "sql_query"}],
      [policy_mode |-> "developer",  allow |-> {}] }

\* policy.py:19: no manifest has been loaded.
NoManifest == [policy_mode |-> None]

\* A manifest with its data policy; paths and globs are character sequences.
DataManifest(policy_mode, allow, sqlite_allow, fs_allow_read, fs_allow_write, vector_allow, vector_allow_write) ==
    [policy_mode |-> policy_mode, allow |-> allow, sqlite_allow |-> sqlite_allow,
     fs_allow_read |-> fs_allow_read, fs_allow_write |-> fs_allow_write,
     vector_allow |-> vector_allow, vector_allow_write |-> vector_allow_write]

DataManifests ==
    { DataManifest("local_only", {"read_file"},
                   {<<"/", "d", "/", "b">>}, {<<"/", "d", "/", "*">>},
                   {<<"/", "w", "/", "?">>}, {<<"c", "*">>}, {<<"c", "1">>}),
      DataManifest("local_only", {"read_file", "sql_query"},
                   {<<"/", "e", "/", "b">>}, {}, {<<"/", "d", "/", "a">>}, {}, {}),
      DataManifest("developer", {}, {}, {}, {}, {}, {}) }

\* The paths, collection names and access kinds the data check is asked about.
DataPaths ==
    { <<"/", "d", "/", "a">>, <<"/", "d", "/", "b">>, <<"/", "d", "/", "a", "/", "b">>,
      <<"/", "d">>, <<"/", "e", "/", "b">>, <<"/", "w", "/", "a">>,
      <<"/", "w", "/", "a", "b">>, <<"c", "1">>, <<"c", "2">>, <<"d", "1">> }

Accesses == {"read", "write", "vector_read", "vector_write", "delete"}

ToolNames == {"read_file", "sql_query", "write_file"}

\* A raw tool call of a backend reply: function name, arguments (a JSON object
\* here), and the id the backend supplied, if any.
RawCall(name, args, id) == [name |-> name, arguments |-> args, id |-> id]

\* The backend replies explored, as the "message" object of /api/chat.
PlainReply == [content |-> "done", tool_calls |-> <<>>]

\* A denied or failing sql_query beside a read_file with a backend id.
TwoCalls ==
    [content |-> "", tool_calls |->
        << RawCall("sql_query", [table |-> Str("t1")], None),
           RawCall("read_file", [path |-> Str("/tmp/x.txt")], "b7") >>]

\* A sql_query whose table argument is a number.
TableCall ==
    [content |-> "", tool_calls |->
        << RawCall("sql_query", [db_path |-> Str("/e/b"), query |-> Str("select 1"),
                                 table |-> IntVal(5)], None) >>]

\* Two directives, the first with the backend's id "call_1", the second
\* without an id.
SameIdCalls ==
    [content |-> "", tool_calls |->
        << RawCall("read_file", [path |-> Str("/tmp/x.txt")], "call_1"),
           RawCall("read_file", [path |-> Str("/tmp/x.txt")], None) >>]

\* One read_file.
OneRead ==
    [content |-> "", tool_calls |->
        << RawCall("read_file", [path |-> Str("/tmp/x.txt")], None) >>]

\* One read_file of a path that holds a NUL.
NulRead ==
    [content |-> "", tool_calls |->
        << RawCall("read_file", [path |-> Str(NulPath)], None) >>]

\* Two sql_query directives whose table arguments are 1 and true, in either
\* order.
NumberTables(first, second) ==
    [content |-> "", tool_calls |->
        << RawCall("sql_query", [db_path |-> Str("/e/b"), query |-> Str("select 1"),
                                 table |-> first], None),
           RawCall("sql_query", [db_path |-> Str("/e/b"), query |-> Str("select 1"),
                                 table |-> second], None) >>]

ToolReplies ==
    { OneRead, NulRead, TwoCalls, TableCall, SameIdCalls,
      NumberTables(IntVal(1), Bool(TRUE)), NumberTables(Bool(TRUE), IntVal(1)) }

BackendReplies == {PlainReply} \cup ToolReplies

\* tool_router.py:158-174: what awaiting a registered tool's run can produce:
\* an output, an output whose result json.dumps cannot write (bytes read
\* from a BLOB column), an output with its error set, a KeyError, another
\* exception.
ToolOutcomes == {"ok", "ok bytes", "error", "raise KeyError", "raise"}

\* The outcomes the run of the built-in tool `name` has on the arguments args,
\* over every context and filesystem. Outside their try blocks the tools read
\* args[key] (KeyError when the key is missing), call Path(...).resolve() on
\* the path (TypeError when it is no string, ValueError when it holds a NUL)
\* and on the entries of the allow list (ValueError when one holds a NUL),
\* fnmatch on the collection (TypeError when it is no string and the allow
\* list is not empty), len(content.encode()) > max_bytes (AttributeError when
\* content is no string, TypeError when the context's max_bytes is None) and
\* Document(**d) on the documents; a path or collection that is not allowed
\* is an output with its error set, and every other failure is caught inside
\* the tool and returned so.
OutcomesOf(name, args) ==
    IF RequiredArgs[name] \ DOMAIN args # {} THEN {"raise KeyError"}
    ELSE IF name \in DOMAIN ResolvedArg
    THEN LET path == args[ResolvedArg[name]] IN
         IF path.kind # "str" THEN {"raise"}
         ELSE IF path.chars = NulPath THEN {"raise"}
         ELSE IF name = "write_file"
         THEN (IF args["content"].kind # "str" THEN {"error", "raise"}
               ELSE {"ok", "error", "raise"})
         ELSE IF name = "sql_query"
         THEN (IF args["query"].kind # "str" THEN {"error", "raise"}
               ELSE {"ok", "ok bytes", "error", "raise"})
         ELSE {"ok", "error", "raise"}
    ELSE IF args["collection"].kind # "str" THEN {"error", "raise"}
    ELSE IF name = "vector_search"
    THEN (IF Truthy(ArgGet(args, "query")) \/ Truthy(ArgGet(args, "query_vector"))
          THEN {"ok", "error"} ELSE {"error"})
    ELSE LET operation == args["operation"]
             documents == IF "documents" \in DOMAIN args THEN args["documents"] ELSE List(<<>>)
             ids       == IF "ids" \in DOMAIN args THEN args["ids"] ELSE List(<<>>)
         IN IF operation = Str("insert")
            THEN (IF Truthy(documents) THEN {"ok", "error", "raise"} ELSE {"error"})
            ELSE IF operation = Str("update")
            THEN (IF Truthy(ids) /\ Truthy(documents) THEN {"ok", "error", "raise"}
                  ELSE {"error"})
            ELSE IF operation = Str("delete")
            THEN (IF Truthy(ids) THEN {"ok", "error"} ELSE {"error"})
            ELSE {"error"}

\* tool_router.py:161-174: json.dumps of the payload handed back for an
\* outcome. The dumps of an output (line 168) is in the else clause of the
\* try: its TypeError on bytes is not caught.
DumpRaised == "raise TypeError"

OutputContent(outcome) ==
    IF outcome = "ok" THEN "result"
    ELSE IF outcome = "ok bytes" THEN DumpRaised
    ELSE IF outcome = "error" THEN "error: output.error"
    ELSE IF outcome = "raise KeyError" THEN "error: Unknown tool"
    ELSE "error: exception"

\* The message lists a client sends (ChatRequest.messages).
UserOnly ==
    << [role |-> "user", content |-> "hello", tool_calls |-> <<>>,
        tool_call_id |-> None] >>

WithSystem ==
    << [role |-> "system", content |-> "Be brief.", tool_calls |-> <<>>,
        tool_call_id |-> None],
       [role |-> "user", content |-> "hello", tool_calls |-> <<>>,
        tool_call_id |-> None] >>

\* The last of them continues a conversation that holds an earlier directive
\* of the assistant and its answer.
RequestMessages ==
    { UserOnly, WithSystem,
      << [role |-> "user", content |-> "hello", tool_calls |-> <<>>,
          tool_call_id |-> None],
         [role |-> "assistant", content |-> None,
          tool_calls |-> << [id |-> "call_0",
                             function |-> [name |-> "read_file",
                                           arguments |-> [kind |-> "json",
                                               value |-> [path |-> Str("/tmp/x.txt")]]]] >>,
          tool_call_id |-> None],
         [role |-> "tool", content |-> "result", tool_calls |-> <<>>,
          tool_call_id |-> "call_0"],
         [role |-> "user", content |-> "again", tool_calls |-> <<>>,
          tool_call_id |-> None] >> }

\* Four explorations, each with the replies the backend gives and the
\* message lists the client sends in it: one request taken through every
\* iteration of its loop; several requests in flight together with MaxCalls
\* adapter calls between them; one request beside the calls made over MCP;
\* one request with every reply and every message list.
Limits(max_iterations) ==
    { [requests |-> 1, calls |-> max_iterations + 1, mcp |-> 0,
       replies |-> {PlainReply, NulRead, TwoCalls, TableCall}, messages |-> {UserOnly}],
      [requests |-> Cardinality(Requests), calls |-> MaxCalls, mcp |-> 0,
       replies |-> {PlainReply, OneRead, NulRead, TwoCalls}, messages |-> {UserOnly}],
      [requests |-> 1, calls |-> MaxCalls, mcp |-> MaxMcp,
       replies |-> {PlainReply, OneRead, NulRead, TwoCalls}, messages |-> {UserOnly}],
      [requests |-> 1, calls |-> MaxCalls, mcp |-> 0,
       replies |-> BackendReplies, messages |-> RequestMessages] }

----------------------------------------------------------------------------
(* JSON text, modelled as a tagged value: text that decodes to `value`. *)

JsonDumps(v) == [kind |-> "json", value |-> v]

IsDecodable(s) == s.kind = "json"

\* tool_router.py:88-91: json.loads, JSONDecodeError -> {}
ParseArgs(s) == IF IsDecodable(s) THEN s.value ELSE EmptyDict

\* dict.get(key, "")
DictGet(d, key) == IF key \in DOMAIN d THEN d[key] ELSE Str("")

----------------------------------------------------------------------------
(* Model adapter: OllamaAdapter._from_ollama_response, structured branch *)

GeneratedId(i) == <<"call_0", "call_1", "call_2", "call_3">>[i + 1]

\* ollama.py:235: tc.get("id", f"call_{i}"), i counted from 0
CallId(raw, i) == IF raw.id = None THEN GeneratedId(i) ELSE raw.id

\* The text str() gives for a value that is not valid JSON.
Repr(v) == [kind |-> "repr", value |-> v]

\* The strings of the model whose characters are a JSON text, with the
\* value json.loads reads from them.
JsonTexts ==
    ("5" :> IntVal(5)) @@ ("null" :> Null) @@ ("{\"path\": \"/tmp/x.txt\"}" :> [path |-> Str("/tmp/x.txt")])

\* The strings of the model that hold an apostrophe and no double quote:
\* repr() writes them between double quotes, as JSON does.
DoubleQuoted == {"it's"}

\* repr(v) is a JSON text: an integer, a string repr() writes between double
\* quotes, an empty dict, a list of such values. Other strings come between
\* single quotes, None and the booleans as Python names.
RECURSIVE ReprIsJson(_)
ReprIsJson(v) ==
    IF "kind" \notin DOMAIN v THEN DOMAIN v = {}
    ELSE IF v.kind = "int" THEN TRUE
    ELSE IF v.kind = "str" THEN v.chars \in DoubleQuoted
    ELSE IF v.kind = "list" THEN \A i \in 1 .. Len(v.items) : ReprIsJson(v.items[i])
    ELSE IF v.kind = "obj" THEN DOMAIN v.fields = {}
    ELSE FALSE

\* str(args) for a parsed JSON value that is not an object: a string gives
\* its bare characters, which may be a JSON text; an integer its digits; a
\* list the repr of its items between brackets; None gives "None".
PyStr(v) ==
    IF v.kind = "str"
    THEN (IF v.chars \in DOMAIN JsonTexts THEN JsonDumps(JsonTexts[v.chars]) ELSE Repr(v))
    ELSE IF v.kind \in {"int", "list"}
    THEN (IF ReprIsJson(v) THEN JsonDumps(v) ELSE Repr(v))
    ELSE Repr(v)

\* ollama.py:76, 231-233, 267: json.dumps(args) if isinstance(args, dict) else str(args)
ArgsStr(args) == IF IsDict(args) THEN JsonDumps(args) ELSE PyStr(args)

\* ollama.py:229-245
ToolCall(raw, i) ==
    [id |-> CallId(raw, i),
     function |-> [name |-> raw.name, arguments |-> ArgsStr(raw.arguments)]]

Message(role, content, tool_calls, tool_call_id) ==
    [role |-> role, content |-> content, tool_calls |-> tool_calls,
     tool_call_id |-> tool_call_id]

\* tool_calls = <<>> stands for None (the code only tests its truthiness).
FromOllamaResponse(msg_data) ==
    Message("assistant",
            IF msg_data.content = "" THEN None ELSE msg_data.content,
            [i \in 1 .. Len(msg_data.tool_calls) |->
                ToolCall(msg_data.tool_calls[i], i - 1)],
            None)

----------------------------------------------------------------------------
(* Policy engine: DomeKitPolicyEngine.check_tool *)

\* A check against the tools the registry holds instead of policy.tools.allow.
check_tool_registered(m, tool_name) ==
    IF m.policy_mode = "developer"
    THEN [verdict |-> "allow", rule |-> "developer_mode"]
    ELSE IF tool_name \in {"read_file", "sql_query"}
         THEN [verdict |-> "allow", rule |-> "tools.allow"]
         ELSE [verdict |-> "deny", rule |-> "tools.allow"]

\* The tool check with the mode looked at before the manifest: _mode is
\* local_only when no manifest is loaded, and the allow list is then empty.
check_tool_mode_first(m, tool_name) ==
    IF m = NoManifest
    THEN [verdict |-> "deny", rule |-> "tools.allow"]
    ELSE IF m.policy_mode = "developer"
         THEN [verdict |-> "allow", rule |-> "developer_mode"]
         ELSE IF tool_name \in m.allow
              THEN [verdict |-> "allow", rule |-> "tools.allow"]
              ELSE [verdict |-> "deny", rule |-> "tools.allow"]

\* policy.py:32-60
check_tool(m, tool_name) ==
    IF m = NoManifest
    THEN [verdict |-> "deny", rule |-> "no_manifest"]
    ELSE IF m.policy_mode = "developer"
         THEN [verdict |-> "allow", rule |-> "developer_mode"]
         ELSE IF tool_name \in m.allow
              THEN [verdict |-> "allow", rule |-> "tools.allow"]
              ELSE [verdict |-> "deny", rule |-> "tools.allow"]

\* fnmatch.fnmatch(name, pat) on POSIX, for patterns of literal characters,
\* "*" (any run of characters, "/" included) and "?" (any one character):
\* the pattern has to match the whole name.
RECURSIVE fnmatch(_, _)
fnmatch(name, pat) ==
    IF pat = <<>> THEN name = <<>>
    ELSE IF Head(pat) = "*"
         THEN IF fnmatch(name, Tail(pat)) THEN TRUE
              ELSE IF name = <<>> THEN FALSE ELSE fnmatch(Tail(name), pat)
         ELSE IF name = <<>> THEN FALSE
              ELSE IF Head(pat) = "?" \/ Head(pat) = Head(name)
                   THEN fnmatch(Tail(name), Tail(pat))
                   ELSE FALSE

AnyMatch(path, patterns) == \E pattern \in patterns : fnmatch(path, pattern)

Decision(verdict, rule) == [verdict |-> verdict, rule |-> rule]

\* The data check with its globs matched as prefixes of the path.
check_data_access_prefix(m, path, access) ==
    LET Starts(patterns) ==
            \E pattern \in patterns :
                \E k \in 0 .. Len(path) : fnmatch(SubSeq(path, 1, k), pattern)
    IN IF m = NoManifest THEN Decision("deny", "no_manifest")
       ELSE IF m.policy_mode = "developer" THEN Decision("allow", "developer_mode")
       ELSE IF access = "read"
            THEN IF path \in m.sqlite_allow THEN Decision("allow", "data.sqlite.allow")
                 ELSE IF Starts(m.fs_allow_read)
                      THEN Decision("allow", "data.filesystem.allow_read")
                      ELSE Decision("deny", "data.read")
       ELSE IF access = "write"
            THEN IF Starts(m.fs_allow_write)
                 THEN Decision("allow", "data.filesystem.allow_write")
                 ELSE Decision("deny", "data.write")
       ELSE IF access = "vector_read"
            THEN IF Starts(m.vector_allow)
                 THEN Decision("allow", "data.vector.allow")
                 ELSE Decision("deny", "data.vector_read")
       ELSE IF access = "vector_write"
            THEN IF Starts(m.vector_allow_write)
                 THEN Decision("allow", "data.vector.allow_write")
                 ELSE Decision("deny", "data.vector_write")
       ELSE Decision("deny", "data.unknown_access")

\* policy.py:64-150
check_data_access(m, path, access) ==
    IF m = NoManifest THEN Decision("deny", "no_manifest")
    ELSE IF m.policy_mode = "developer" THEN Decision("allow", "developer_mode")
    ELSE IF access = "read"
         THEN IF path \in m.sqlite_allow THEN Decision("allow", "data.sqlite.allow")
              ELSE IF AnyMatch(path, m.fs_allow_read)
                   THEN Decision("allow", "data.filesystem.allow_read")
                   ELSE Decision("deny", "data.read")
    ELSE IF access = "write"
         THEN IF AnyMatch(path, m.fs_allow_write)
              THEN Decision("allow", "data.filesystem.allow_write")
              ELSE Decision("deny", "data.write")
    ELSE IF access = "vector_read"
         THEN IF AnyMatch(path, m.vector_allow)
              THEN Decision("allow", "data.vector.allow")
              ELSE Decision("deny", "data.vector_read")
    ELSE IF access = "vector_write"
         THEN IF AnyMatch(path, m.vector_allow_write)
              THEN Decision("allow", "data.vector.allow_write")
              ELSE Decision("deny", "data.vector_write")
    ELSE Decision("deny", "data.unknown_access")

----------------------------------------------------------------------------
(* Audit entries *)

AuditEntry(r, event, detail) ==
    [request_id |-> r, event |-> event, detail |-> detail]

\* The values of the ts field, as the ISO texts model_dump_json writes, in
\* chronological order.
Clock == <<"T1", "T2", "T3">>

\* datetime comparison of two parsed ts values: the position on the clock.
TsOrder(ts) == CHOOSE i \in 1 .. Len(Clock) : Clock[i] = ts

\* An entry with its ts field.
Stamped(ts, entry) == [ts |-> ts] @@ entry

\* Bookkeeping for an entry: the iteration and position of the directive it was
\* written for (0, 0 for request.start and request.end) and the directive's id.
Origin(iter, idx, id) == [iter |-> iter, idx |-> idx, id |-> id]

----------------------------------------------------------------------------
(* ToolRouter.run *)

IdleRun ==
    [pc |-> "idle", iter |-> 0, di |-> 0, prompt_tools |-> FALSE,
     request_messages |-> <<>>, messages |-> <<>>, last_message |-> Message("assistant", "", <<>>, None),
     tools_used |-> <<>>, tables_queried |-> <<>>,
     response |-> [message |-> Message("assistant", "", <<>>, None),
                   tools_used |-> <<>>, tables_queried |-> <<>>]]

\* The state a step of run works on: its locals and the shared audit file.
Ctx(st, lg, og, inv) == [st |-> st, log |-> lg, origin |-> og, invoked |-> inv]

\* api.py:45-52: TraceMeta validates tables_queried as a list of str.
ValidTrace(tables_queried) ==
    \A k \in 1 .. Len(tables_queried) : tables_queried[k].kind = "str"

\* tool_router.py:216-235: the trace and the response; a ValidationError of
\* TraceMeta leaves run.
Return(st) ==
    IF ValidTrace(st.tables_queried)
    THEN [st EXCEPT !.pc = "done",
                    !.response = [message |-> st.last_message,
                                  tools_used |-> st.tools_used,
                                  tables_queried |-> st.tables_queried]]
    ELSE [st EXCEPT !.pc = "trace_invalid"]

\* request.end written on leaving the loop and again before returning.
Finish_Twice(r, c) ==
    LET st == c.st
        e  == AuditEntry(r, "request.end", [tools_used |-> st.tools_used])
    IN Ctx(Return(st),
           c.log \o <<e, e>>,
           c.origin \o <<Origin(0, 0, None), Origin(0, 0, None)>>,
           c.invoked)

\* tool_router.py:204-235: write request.end, build the trace, return or
\* raise.
Finish(r, c) ==
    LET st == c.st IN
    Ctx(Return(st),
        Append(c.log, AuditEntry(r, "request.end", [tools_used |-> st.tools_used])),
        Append(c.origin, Origin(0, 0, None)),
        c.invoked)

\* The tool.result entry left out.
RecordResult_NoLog(r, c, i, output_content) ==
    LET st   == c.st
        tc   == st.last_message.tool_calls[i]
    IN Ctx([st EXCEPT !.tools_used = Append(st.tools_used, tc.function.name),
                      !.messages = Append(st.messages,
                                          Message("tool", output_content, <<>>, tc.id))],
           c.log, c.origin, c.invoked)

\* tool_router.py:176-202: after the tool ran (or failed): record the tool,
\* track the table (`table not in tables_queried` compares with ==), write
\* tool.result, append the tool-role message.
RecordResult(r, c, i, output_content) ==
    LET st   == c.st
        tc   == st.last_message.tool_calls[i]
        name == tc.function.name
        args == ParseArgs(tc.function.arguments)
        table == DictGet(args, "table")
        tables == IF name = "sql_query" /\ Truthy(table)
                     /\ \A k \in 1 .. Len(st.tables_queried) :
                           ~PyEq(st.tables_queried[k], table)
                  THEN Append(st.tables_queried, table)
                  ELSE st.tables_queried
    IN Ctx([st EXCEPT !.tools_used = Append(st.tools_used, name),
                      !.tables_queried = tables,
                      !.messages = Append(st.messages,
                                          Message("tool", output_content, <<>>, tc.id))],
           Append(c.log, AuditEntry(r, "tool.result", [tool |-> name, call_id |-> tc.id])),
           Append(c.origin, Origin(st.iter, i, tc.id)),
           c.invoked)

\* The deny branch with the tool recorded in tools_used before the policy check.
Deny_Records(r, c, i, decision) ==
    LET st   == c.st
        tc   == st.last_message.tool_calls[i]
        name == tc.function.name
    IN Ctx([st EXCEPT !.tools_used = Append(st.tools_used, name),
                      !.messages = Append(st.messages,
                                          Message("tool", "error: Policy denied", <<>>, tc.id))],
           Append(c.log, AuditEntry(r, "policy.block",
                                    [tool |-> name, rule |-> decision.rule])),
           Append(c.origin, Origin(st.iter, i, tc.id)),
           c.invoked)

\* tool_router.py:100-125: the deny branch.
Deny(r, c, i, decision) ==
    LET st   == c.st
        tc   == st.last_message.tool_calls[i]
        name == tc.function.name
    IN Ctx([st EXCEPT !.messages = Append(st.messages,
                                          Message("tool", "error: Policy denied", <<>>, tc.id))],
           Append(c.log, AuditEntry(r, "policy.block",
                                    [tool |-> name, rule |-> decision.rule])),
           Append(c.origin, Origin(st.iter, i, tc.id)),
           c.invoked)

\* tool_router.py:127-137: the tool.call entry of an allowed directive.
LogToolCall(r, c, i) ==
    LET st   == c.st
        tc   == st.last_message.tool_calls[i]
    IN Ctx(st,
           Append(c.log, AuditEntry(r, "tool.call",
                                    [tool |-> tc.function.name,
                                     arguments |-> ParseArgs(tc.function.arguments)])),
           Append(c.origin, Origin(st.iter, i, tc.id)),
           c.invoked)

\* tool_router.py:77-202: run from directive i of the current reply up to the
\* next await (the tool's run, or the adapter's chat) or to the return. A
\* directive whose arguments decode to something else than an object fails
\* the validation of ToolInput (lines 93-95), and that error leaves run.
RECURSIVE Process(_, _, _, _)
Process(r, m, c, i) ==
    LET st == c.st IN
    IF i > Len(st.last_message.tool_calls)
    THEN IF st.iter < MAX_ITERATIONS
         THEN Ctx([st EXCEPT !.pc = "await_chat", !.iter = @ + 1, !.di = 0],
                  c.log, c.origin, c.invoked)
         ELSE Finish(r, Ctx([st EXCEPT !.di = 0], c.log, c.origin, c.invoked))
    ELSE LET tc       == st.last_message.tool_calls[i]
             name     == tc.function.name
             decision == check_tool(m, name)
         IN IF ~IsDict(ParseArgs(tc.function.arguments))
            THEN Ctx([st EXCEPT !.pc = "invalid", !.di = i], c.log, c.origin, c.invoked)
            ELSE IF decision.verdict = "deny"
            THEN Process(r, m, Deny(r, c, i, decision), i + 1)
            ELSE LET called == LogToolCall(r, c, i) IN
                 IF name \notin Registered
                 THEN Process(r, m, RecordResult(r, called, i, "error: Unknown tool"), i + 1)
                 ELSE Ctx([st EXCEPT !.pc = "await_tool", !.di = i],
                          called.log, called.origin,
                          called.invoked \cup {<<r, st.iter, i>>})

Install(r, c) ==
    /\ run' = [run EXCEPT ![r] = c.st]
    /\ log' = c.log
    /\ origin' = c.origin
    /\ invoked' = c.invoked

\* Adapter calls answered so far, over all requests.
TotalCalls ==
    LET RECURSIVE Sum(_)
        Sum(S) == IF S = {} THEN 0
                  ELSE LET r == CHOOSE x \in S : TRUE
                       IN Len(chat_calls[r]) + Sum(S \ {r})
    IN Sum(Requests)

\* tool_router.py:66-70: copy the request's messages; prepend a system prompt
\* when the list is non-empty and does not start with one.
BuildMessages(request_messages) ==
    IF Len(request_messages) > 0 /\ request_messages[1].role # "system"
    THEN <<Message("system", "You are app, a DomeKit-powered assistant.", <<>>, None)>>
             \o request_messages
    ELSE request_messages

\* ollama.py:167-213: _build_messages runs json.loads on the arguments of the
\* directives the messages carry, and raises JSONDecodeError on a text that
\* is not JSON: with prompt_tools on the first directive of each message
\* that is not a tool result (line 192), otherwise on every directive
\* (line 206).
Sendable(messages, prompt_tools) ==
    \A k \in 1 .. Len(messages) :
        LET msg == messages[k] IN
        IF prompt_tools
        THEN (msg.role # "tool" /\ Len(msg.tool_calls) > 0)
                 => IsDecodable(msg.tool_calls[1].function.arguments)
        ELSE \A i \in 1 .. Len(msg.tool_calls) :
                 IsDecodable(msg.tool_calls[i].function.arguments)

\* The request.start entry left out.
StartRequest_NoStart(r, request_messages, prompt_tools) ==
    /\ run[r].pc = "idle"
    /\ r <= limit.requests
    /\ \A q \in Requests : q < r => run[q].pc # "idle"
    /\ Install(r, Ctx([run[r] EXCEPT !.pc = "await_chat", !.iter = 1,
                                     !.prompt_tools = prompt_tools,
                                     !.request_messages = request_messages,
                                     !.messages = BuildMessages(request_messages)],
                      log, origin, invoked))
    /\ UNCHANGED <<manifest, chat_calls, limit, client_messages, mcp, file, lock, th, tail>>
    /\ UNCHANGED callVars

\* tool_router.py:47-78: request.start, the message list, the first chat call.
\* The model the request names decides whether the adapter passes the tools
\* natively or in the prompt (ollama.py:120-123).
StartRequest(r, request_messages, prompt_tools) ==
    /\ run[r].pc = "idle"
    /\ r <= limit.requests
    /\ \A q \in Requests : q < r => run[q].pc # "idle"
    /\ Install(r, Ctx([run[r] EXCEPT !.pc = "await_chat", !.iter = 1,
                                     !.prompt_tools = prompt_tools,
                                     !.request_messages = request_messages,
                                     !.messages = BuildMessages(request_messages)],
                      Append(log, AuditEntry(r, "request.start", EmptyDict)),
                      Append(origin, Origin(0, 0, None)),
                      invoked))
    /\ UNCHANGED <<manifest, chat_calls, limit, client_messages, mcp, file, lock, th, tail>>
    /\ UNCHANGED callVars

\* The reply of the last iteration returned without processing its directives.
ChatReply_ReturnAtCap(r, msg_data) ==
    /\ run[r].pc = "await_chat"
    /\ TotalCalls < limit.calls
    /\ Sendable(run[r].messages, run[r].prompt_tools)
    /\ LET last == FromOllamaResponse(msg_data)
           st   == [run[r] EXCEPT !.last_message = last]
       IN IF Len(last.tool_calls) = 0 \/ st.iter = MAX_ITERATIONS
          THEN Install(r, Finish(r, Ctx(st, log, origin, invoked)))
          ELSE Install(r, Process(r, manifest,
                                  Ctx([st EXCEPT !.messages = Append(@, last)],
                                      log, origin, invoked), 1))
    /\ chat_calls' = [chat_calls EXCEPT ![r] = Append(@, FromOllamaResponse(msg_data))]
    /\ UNCHANGED <<manifest, limit, client_messages, mcp, file, lock, th, tail>>
    /\ UNCHANGED callVars

\* tool_router.py:78-202: the adapter builds its payload from the messages,
\* posts it and returns a reply.
ChatReply(r, msg_data) ==
    /\ run[r].pc = "await_chat"
    /\ TotalCalls < limit.calls
    /\ Sendable(run[r].messages, run[r].prompt_tools)
    /\ LET last == FromOllamaResponse(msg_data)
           st   == [run[r] EXCEPT !.last_message = last]
       IN IF Len(last.tool_calls) = 0
          THEN Install(r, Finish(r, Ctx(st, log, origin, invoked)))
          ELSE Install(r, Process(r, manifest,
                                  Ctx([st EXCEPT !.messages = Append(@, last)],
                                      log, origin, invoked), 1))
    /\ chat_calls' = [chat_calls EXCEPT ![r] = Append(@, FromOllamaResponse(msg_data))]
    /\ UNCHANGED <<manifest, limit, client_messages, mcp, file, lock, th, tail>>
    /\ UNCHANGED callVars

\* ollama.py:126, 145-147: _build_messages raises on the messages, or the HTTP
\* call fails; the exception leaves run.
ChatRaise(r) ==
    /\ run[r].pc = "await_chat"
    /\ run' = [run EXCEPT ![r].pc = "failed"]
    /\ UNCHANGED <<manifest, log, origin, invoked, chat_calls, limit, client_messages, mcp,
                   file, lock, th, tail>>
    /\ UNCHANGED callVars

\* tool_router.py:158-202: the awaited tool returns or raises. The except
\* KeyError clause of line 161 covers tool.run as well as registry.get, so a
\* KeyError raised by the tool is reported as an unknown tool. A result
\* json.dumps cannot write raises out of run before anything is recorded.
ToolReturn(r, outcome) ==
    /\ run[r].pc = "await_tool"
    /\ LET tc == run[r].last_message.tool_calls[run[r].di]
       IN outcome \in OutcomesOf(tc.function.name, ParseArgs(tc.function.arguments))
    /\ IF OutputContent(outcome) = DumpRaised
       THEN /\ run' = [run EXCEPT ![r].pc = "dump_failed"]
            /\ UNCHANGED <<log, origin, invoked>>
       ELSE Install(r, Process(r, manifest,
                               RecordResult(r, Ctx(run[r], log, origin, invoked),
                                            run[r].di, OutputContent(outcome)),
                               run[r].di + 1))
    /\ UNCHANGED <<manifest, chat_calls, limit, client_messages, mcp, file, lock, th, tail>>
    /\ UNCHANGED callVars

\* The client disconnects: the task is cancelled at its await.
Cancel(r) ==
    /\ run[r].pc \in {"await_chat", "await_tool"}
    /\ run' = [run EXCEPT ![r].pc = "cancelled"]
    /\ UNCHANGED <<manifest, log, origin, invoked, chat_calls, limit, client_messages, mcp,
                   file, lock, th, tail>>
    /\ UNCHANGED callVars

----------------------------------------------------------------------------
(* mcp_server._run_tool: a tool called over MCP, on the same audit log *)

IdleMcp == [pc |-> "idle", n |-> 0, tool_name |-> None, args |-> EmptyDict, result |-> None]

\* mcp_server.py:60-61: uuid4 gives each call a request id and a call id of
\* its own, unlike every other id.
McpRequestId(n) == Cardinality(Requests) + n

McpCallId(n) == <<"uuid1", "uuid2", "uuid3">>[n]

McpEntry(n, event, detail) ==
    AuditEntry(McpRequestId(n), event, detail @@ [transport |-> "mcp"])

\* mcp_server.py:55-94: the policy check, then policy.block and the denial
\* returned, or tool.call and the tool looked up and awaited.
McpCall(tool_name, args) ==
    /\ mcp.pc = "idle"
    /\ mcp.n < limit.mcp
    /\ LET n        == mcp.n + 1
           decision == check_tool(manifest, tool_name)
           started  == [mcp EXCEPT !.n = n, !.tool_name = tool_name, !.args = args]
           called   == Append(log, McpEntry(n, "tool.call",
                                            [tool |-> tool_name, arguments |-> args]))
       IN IF decision.verdict = "deny"
          THEN /\ log' = Append(log, McpEntry(n, "policy.block",
                                              [tool |-> tool_name, rule |-> decision.rule]))
               /\ origin' = Append(origin, Origin(0, 0, McpCallId(n)))
               /\ mcp' = [started EXCEPT !.result = "Policy denied"]
          ELSE IF tool_name \notin Registered
          THEN /\ log' = Append(called, McpEntry(n, "tool.result",
                                                 [tool |-> tool_name, call_id |-> McpCallId(n)]))
               /\ origin' = origin \o <<Origin(0, 0, McpCallId(n)), Origin(0, 0, McpCallId(n))>>
               /\ mcp' = [started EXCEPT !.result = "error: Unknown tool"]
          ELSE /\ log' = called
               /\ origin' = Append(origin, Origin(0, 0, McpCallId(n)))
               /\ mcp' = [started EXCEPT !.pc = "await_tool", !.result = None]
    /\ UNCHANGED <<manifest, run, invoked, chat_calls, limit, client_messages,
                   file, lock, th, tail>>
    /\ UNCHANGED callVars

\* mcp_server.py:92-116: the awaited tool returns or raises; tool.result is
\* written and the payload returned. The dumps of an output (lines 103-105)
\* is in the else clause of the try: its TypeError on bytes leaves _run_tool
\* before tool.result is written.
McpReturn(outcome) ==
    /\ mcp.pc = "await_tool"
    /\ outcome \in OutcomesOf(mcp.tool_name, mcp.args)
    /\ IF OutputContent(outcome) = DumpRaised
       THEN UNCHANGED <<log, origin>>
       ELSE /\ log' = Append(log, McpEntry(mcp.n, "tool.result",
                                           [tool |-> mcp.tool_name,
                                            call_id |-> McpCallId(mcp.n)]))
            /\ origin' = Append(origin, Origin(0, 0, McpCallId(mcp.n)))
    /\ mcp' = [mcp EXCEPT !.pc = "idle", !.result = OutputContent(outcome)]
    /\ UNCHANGED <<manifest, run, invoked, chat_calls, limit, client_messages,
                   file, lock, th, tail>>
    /\ UNCHANGED callVars

\* mcp_server.py:122-167: the public tools and the arguments they pass to
\* _run_tool. vector_search passes query only when it is not empty, and
\* top_k always; vector_manage passes documents and ids only when given.
McpCalls ==
    { [tool_name |-> "read_file", args |-> [path |-> Str("/tmp/x.txt")]],
      [tool_name |-> "sql_query",
       args |-> [db_path |-> Str("/e/b"), query |-> Str("select 1")]],
      [tool_name |-> "write_file",
       args |-> [path |-> Str("/w/out.txt"), content |-> Str("c")]],
      [tool_name |-> "vector_search", args |-> [collection |-> Str("c1"), top_k |-> IntVal(5)]],
      [tool_name |-> "vector_search",
       args |-> [collection |-> Str("c1"), query |-> Str("q"), top_k |-> IntVal(5)]],
      [tool_name |-> "vector_manage",
       args |-> [collection |-> Str("c1"), operation |-> Str("insert"),
                 documents |-> List(<<Obj([text |-> Str("t")])>>)]],
      [tool_name |-> "vector_manage",
       args |-> [collection |-> Str("c1"), operation |-> Str("delete")]] }

----------------------------------------------------------------------------
(* JsonlAuditLogger.log, called from several threads *)

\* Entries each writer logs.
MaxEntries == 3

Threads == {1, 2}

NoThread == 0

\* One thread per request; its request id.
ThreadRequestId(t) == <<"r1", "r2">>[t]

\* The entries a request's run logs, in execution order.
EntryOf(t, n) ==
    IF n = 1 THEN AuditEntry(ThreadRequestId(t), "request.start", EmptyDict)
    ELSE IF n % 2 = 0
         THEN AuditEntry(ThreadRequestId(t), "tool.call", [tool |-> "read_file"])
         ELSE AuditEntry(ThreadRequestId(t), "tool.result", [tool |-> "read_file"])

\* logger.py:22: entry.model_dump_json() + "\n", as a sequence of bytes: the
\* braces, one byte group per field, the newline.
Serialize(entry) ==
    <<"{">>
        \o (IF "ts" \in DOMAIN entry THEN <<entry.ts>> ELSE <<>>)
        \o <<entry.request_id, entry.event>>
        \o (IF "tool" \in DOMAIN entry.detail THEN <<entry.detail.tool>> ELSE <<>>)
        \o <<"}", "\n">>

\* json.loads succeeds on the (stripped) line.
WellFormed(line) ==
    /\ Len(line) \in 4 .. 6
    /\ line[1] = "{"
    /\ line[Len(line)] = "}"
    /\ \A i \in 2 .. Len(line) - 1 : line[i] \notin {"{", "}", "\n"}

\* AuditEntry(**json.loads(line)) for a well-formed line.
ParseLine(line) ==
    IF line[2] \in {Clock[i] : i \in 1 .. Len(Clock)}
    THEN Stamped(line[2],
                 AuditEntry(line[3], line[4],
                            IF Len(line) = 6 THEN [tool |-> line[5]] ELSE EmptyDict))
    ELSE AuditEntry(line[2], line[3],
                    IF Len(line) = 5 THEN [tool |-> line[4]] ELSE EmptyDict)

\* The line Python's file iteration returns at position from: the bytes
\* through the next newline, or to the end of the file; empty at the end.
RECURSIVE NextLine(_, _, _)
NextLine(bytes, from, cur) ==
    IF from >= Len(bytes) THEN cur
    ELSE IF bytes[from + 1] = "\n" THEN Append(cur, "\n")
    ELSE NextLine(bytes, from + 1, Append(cur, bytes[from + 1]))

\* All the lines from position from to the end of the file: each through
\* its newline, the last one to the end of the file when no newline ends it.
FileLines(bytes, from) ==
    LET ends   == SelectSeq([i \in 1 .. Len(bytes) |-> i],
                            LAMBDA i : i > from /\ bytes[i] = "\n")
        n      == Len(ends)
        End(k) == IF k = 0 THEN from ELSE ends[k]
        whole  == [k \in 1 .. n |-> SubSeq(bytes, End(k - 1) + 1, End(k))]
    IN IF End(n) < Len(bytes)
       THEN Append(whole, SubSeq(bytes, End(n) + 1, Len(bytes)))
       ELSE whole

\* str.strip() of a line: the trailing newline removed.
Strip(line) ==
    IF line # <<>> /\ line[Len(line)] = "\n" THEN SubSeq(line, 1, Len(line) - 1)
    ELSE line

IdleThread == [pc |-> "idle", n |-> 0, line |-> <<>>, buf |-> <<>>]

\* logger.py:21-22: log is called; the entry is serialized.
LogCall(t) ==
    /\ th[t].pc = "idle"
    /\ th[t].n < MaxEntries
    /\ th' = [th EXCEPT ![t].pc = "lock", ![t].line = Serialize(EntryOf(t, th[t].n + 1))]
    /\ UNCHANGED <<file, lock, tail>>
    /\ UNCHANGED routerVars
    /\ UNCHANGED callVars

\* The with-block entered without taking the lock.
Acquire_NoLock(t) ==
    /\ th[t].pc = "lock"
    /\ lock' = t
    /\ th' = [th EXCEPT ![t].pc = "open"]
    /\ UNCHANGED <<file, tail>>
    /\ UNCHANGED routerVars
    /\ UNCHANGED callVars

\* logger.py:23: with self._lock
Acquire(t) ==
    /\ th[t].pc = "lock"
    /\ lock = NoThread
    /\ lock' = t
    /\ th' = [th EXCEPT ![t].pc = "open"]
    /\ UNCHANGED <<file, tail>>
    /\ UNCHANGED routerVars
    /\ UNCHANGED callVars

\* logger.py:24-25: open in append mode, f.write(line) into the file object's buffer.
WriteBuffered(t) ==
    /\ th[t].pc = "open"
    /\ th' = [th EXCEPT ![t].pc = "flush", ![t].buf = th[t].line]
    /\ UNCHANGED <<file, lock, tail>>
    /\ UNCHANGED routerVars
    /\ UNCHANGED callVars

\* logger.py:24: leaving the with-open block flushes the buffer: one write to
\* the descriptor (O_APPEND) of the first k buffered bytes, all of them or,
\* on a partial write, fewer.
OsWrite(t) ==
    /\ th[t].pc = "flush"
    /\ \E k \in 1 .. Len(th[t].buf) :
          /\ file' = file \o SubSeq(th[t].buf, 1, k)
          /\ th' = [th EXCEPT ![t].buf = SubSeq(th[t].buf, k + 1, Len(th[t].buf))]
    /\ UNCHANGED <<lock, tail>>
    /\ UNCHANGED routerVars
    /\ UNCHANGED callVars

\* logger.py:23-25: the file is closed, the lock released, log returns.
Release(t) ==
    /\ th[t].pc = "flush"
    /\ th[t].buf = <<>>
    /\ lock' = NoThread
    /\ th' = [th EXCEPT ![t].pc = "idle", ![t].n = @ + 1, ![t].line = <<>>]
    /\ UNCHANGED <<file, tail>>
    /\ UNCHANGED routerVars
    /\ UNCHANGED callVars

----------------------------------------------------------------------------
(* stream_tail, with the writer on the same event loop *)

IdleTail ==
    [pc |-> "init", pos |-> 0, size |-> 0, cursor |-> 0, yielded |-> <<>>, k |-> 0]

\* logger.py:21-25 as one step, for request t's next entry: on the event
\* loop log runs without awaiting, so the logger is a single writer and the
\* tail sees the file before or after the whole call.
LogWhole(t) ==
    /\ th[t].pc = "idle"
    /\ th[t].n < MaxEntries
    /\ file' = file \o Serialize(EntryOf(t, th[t].n + 1))
    /\ th' = [th EXCEPT ![t].n = @ + 1]
    /\ UNCHANGED <<lock, tail>>
    /\ UNCHANGED routerVars
    /\ UNCHANGED callVars

\* The generator started at the beginning of the file.
TailStart_FromZero ==
    /\ tail.pc = "init"
    /\ tail' = [tail EXCEPT !.pc = "poll", !.pos = 0, !.k = Len(FileLines(file, 0))]
    /\ UNCHANGED <<file, lock, th>>
    /\ UNCHANGED routerVars
    /\ UNCHANGED callVars

\* query.py:78-80: pos = the file's size (0 when it does not exist); k, for
\* the record, is the number of entries the file holds at that moment.
TailStart ==
    /\ tail.pc = "init"
    /\ tail' = [tail EXCEPT !.pc = "poll", !.pos = Len(file),
                             !.k = Len(FileLines(file, 0))]
    /\ UNCHANGED <<file, lock, th>>
    /\ UNCHANGED routerVars
    /\ UNCHANGED callVars

\* query.py:83-85: the file has grown: open it and seek to pos. (When it has
\* not, the generator sleeps and polls again, which changes nothing.)
TailPoll ==
    /\ tail.pc = "poll"
    /\ Len(file) > tail.pos
    /\ tail' = [tail EXCEPT !.pc = "reading", !.size = Len(file), !.cursor = tail.pos]
    /\ UNCHANGED <<file, lock, th>>
    /\ UNCHANGED routerVars
    /\ UNCHANGED callVars

\* query.py:86-90: the next line of the open file: yield its entry; at the
\* end of the file pos = f.tell() and the file is closed.
TailReadLine ==
    /\ tail.pc = "reading"
    /\ LET raw == NextLine(file, tail.cursor, <<>>) IN
       IF raw = <<>>
       THEN tail' = [tail EXCEPT !.pc = "poll", !.pos = tail.cursor]
       ELSE LET line == Strip(raw)
            IN IF line = <<>>
               THEN tail' = [tail EXCEPT !.cursor = @ + Len(raw)]
               ELSE IF WellFormed(line)
                    THEN tail' = [tail EXCEPT !.cursor = @ + Len(raw),
                                             !.yielded = Append(@, ParseLine(line))]
                    ELSE tail' = [tail EXCEPT !.pc = "raised"]
    /\ UNCHANGED <<file, lock, th>>
    /\ UNCHANGED routerVars
    /\ UNCHANGED callVars

----------------------------------------------------------------------------
(* The audit readers *)

\* Entries appended one by one to the log the readers query.
MaxLog == 3

\* query.py:25, 45 and logger.py:30: the default of limit.
DefaultLimit == 100

\* No reader, policy or tool call has been made.
NoReply == [op |-> "none"]

\* A call of query_filtered without limit and offset.
NoPage == [limit |-> DefaultLimit, offset |-> 0, given |-> FALSE]

Page(lim, offset) == [limit |-> lim, offset |-> offset, given |-> TRUE]

\* seq[start:] of Python for any integer start.
SliceFrom(seq, start) ==
    LET lo == IF start < 0
              THEN (IF Len(seq) + start < 0 THEN 0 ELSE Len(seq) + start)
              ELSE (IF start > Len(seq) THEN Len(seq) ELSE start)
    IN SubSeq(seq, lo + 1, Len(seq))

\* seq[lo:hi] of Python for lo, hi >= 0.
Slice(seq, lo, hi) ==
    SubSeq(seq, lo + 1, IF hi > Len(seq) THEN Len(seq) ELSE hi)

\* A reader that raised (json.JSONDecodeError out of _read_all).
Raised == [raised |-> TRUE, entries |-> <<>>, total |-> 0]

Returned(entries, total) == [raised |-> FALSE, entries |-> entries, total |-> total]

\* query.py:94-105 and logger.py:40-50: every non-blank line of the file is
\* parsed; a line that does not parse raises.
ReadAll(bytes) ==
    LET lines    == FileLines(bytes, 0)
        stripped == [i \in 1 .. Len(lines) |-> Strip(lines[i])]
        nonblank == SelectSeq(stripped, LAMBDA l : l # <<>>)
    IN IF \E i \in 1 .. Len(nonblank) : ~WellFormed(nonblank[i])
       THEN Raised
       ELSE Returned([i \in 1 .. Len(nonblank) |-> LET l == nonblank[i] IN ParseLine(l)], 0)

\* The scan without its filter.
query_by_request_unfiltered(bytes, request_id) == ReadAll(bytes)

\* query.py:19-21 and logger.py:27-28
query_by_request(bytes, request_id) ==
    LET all == ReadAll(bytes) IN
    IF all.raised THEN Raised
    ELSE Returned(SelectSeq(all.entries, LAMBDA e : e.request_id = request_id), 0)

\* query.py:24-29 and logger.py:30-32: matches[-limit:]
query_by_event(bytes, event, lim) ==
    LET all == ReadAll(bytes) IN
    IF all.raised THEN Raised
    ELSE Returned(SliceFrom(SelectSeq(all.entries, LAMBDA e : e.event = event), 0 - lim), 0)

\* query.py:32-35 and logger.py:34-36 (tail): entries[-n:]
audit_tail(bytes, n) ==
    LET all == ReadAll(bytes) IN
    IF all.raised THEN Raised ELSE Returned(SliceFrom(all.entries, 0 - n), 0)

\* sort(key=ts, reverse=True): a stable sort, so entries with the same ts
\* keep their file order.
RECURSIVE NewestFirst(_, _)
NewestFirst(entries, i) ==
    IF i = 0 THEN <<>>
    ELSE SelectSeq(entries, LAMBDA e : e.ts = Clock[i]) \o NewestFirst(entries, i - 1)

\* The filters of query_filtered (query.py:55-62); None leaves a filter out.
Matches(e, f) ==
    /\ f.event = None \/ e.event = f.event
    /\ f.request_id = None \/ e.request_id = f.request_id
    /\ f.since = None \/ TsOrder(e.ts) >= TsOrder(f.since)
    /\ f.until = None \/ TsOrder(e.ts) <= TsOrder(f.until)

\* query.py:38-68
query_filtered(bytes, f, lim, offset) ==
    LET all == ReadAll(bytes) IN
    IF all.raised THEN Raised
    ELSE LET filtered == SelectSeq(all.entries, LAMBDA e : Matches(e, f))
         IN Returned(Slice(NewestFirst(filtered, Len(Clock)), offset, offset + lim),
                     Len(filtered))

\* The entries the requests log, with their timestamps.
LogEntries ==
    { Stamped("T1", AuditEntry("r1", "request.start", EmptyDict)),
      Stamped("T2", AuditEntry("r1", "tool.call", [tool |-> "read_file"])),
      Stamped("T2", AuditEntry("r2", "request.start", EmptyDict)),
      Stamped("T3", AuditEntry("r2", "tool.call", [tool |-> "read_file"])) }

\* A log of a server that has run for a while: one more entry than the
\* default page holds.
LongLog ==
    [i \in 1 .. DefaultLimit + 1 |->
        Stamped("T1", AuditEntry("r1", "tool.call", [tool |-> "read_file"]))]

RECURSIVE SerializeAll(_, _)
SerializeAll(entries, i) ==
    IF i > Len(entries) THEN <<>>
    ELSE Serialize(entries[i]) \o SerializeAll(entries, i + 1)

\* The file holds whole lines only.
EndsWhole(bytes) == IF bytes = <<>> THEN TRUE ELSE bytes[Len(bytes)] = "\n"

\* logger.py:21-25 as one step of the event loop, for any entry: the line is
\* appended to whatever the file ends with, a partial line included.
LogEntry(entry) ==
    /\ Len(logged) < MaxLog
    /\ file' = file \o Serialize(entry)
    /\ logged' = Append(logged, entry)
    /\ reply' = NoReply
    /\ UNCHANGED <<lock, th, tail, disk, posted>>
    /\ UNCHANGED routerVars

\* The file holds the lines of the entries logged and nothing else.
OnlyAppends(bytes) == bytes = SerializeAll(logged, 1)

\* logger.py:25: the process dies inside f.write / the flush, after the first
\* k bytes of the line reached the file. The file outlives the process: the
\* next process appends to it (app.py:87). One such death is explored.
CrashMidWrite(entry) ==
    /\ OnlyAppends(file)
    /\ \E k \in 1 .. Len(Serialize(entry)) - 1 :
          file' = file \o SubSeq(Serialize(entry), 1, k)
    /\ reply' = NoReply
    /\ UNCHANGED <<lock, th, tail, logged, disk, posted>>
    /\ UNCHANGED routerVars

\* A reader's call with its arguments and what it returned. One call is
\* looked at between two writes: a write clears reply, a reader fills it.
ReaderReply(op, args, result) == [op |-> op, args |-> args, result |-> result]

QueryByRequest(request_id) ==
    /\ reply = NoReply
    /\ reply' = ReaderReply("query_by_request", [request_id |-> request_id],
                            query_by_request(file, request_id))
    /\ UNCHANGED <<file, lock, th, tail, logged, disk, posted>>
    /\ UNCHANGED routerVars

QueryByEvent(event, lim) ==
    /\ reply = NoReply
    /\ reply' = ReaderReply("query_by_event", [event |-> event, limit |-> lim],
                            query_by_event(file, event, lim))
    /\ UNCHANGED <<file, lock, th, tail, logged, disk, posted>>
    /\ UNCHANGED routerVars

AuditTail(n) ==
    /\ reply = NoReply
    /\ reply' = ReaderReply("tail", [n |-> n], audit_tail(file, n))
    /\ UNCHANGED <<file, lock, th, tail, logged, disk, posted>>
    /\ UNCHANGED routerVars

QueryFiltered(f, page) ==
    /\ reply = NoReply
    /\ reply' = ReaderReply("query_filtered", [filters |-> f, page |-> page],
                            query_filtered(file, f, page.limit, page.offset))
    /\ UNCHANGED <<file, lock, th, tail, logged, disk, posted>>
    /\ UNCHANGED routerVars

----------------------------------------------------------------------------
(* The built-in tools: read_file, sql_query, write_file *)

\* The values of an argument map or of manifest_data_paths are strings (Str),
\* integers (IntVal), None (Null) or keys that are not there (Unset).
\* sql_query.py:11
_DEFAULT_MAX_ROWS == 100

\* read_file.py:10 and write_file.py:10
_DEFAULT_MAX_BYTES == 1048576

\* The segments of a path: the runs of characters between "/".
RECURSIVE Segments(_, _, _)
Segments(chars, i, cur) ==
    IF i > Len(chars) THEN (IF cur = <<>> THEN <<>> ELSE <<cur>>)
    ELSE IF chars[i] = "/"
         THEN (IF cur = <<>> THEN <<>> ELSE <<cur>>) \o Segments(chars, i + 1, <<>>)
         ELSE Segments(chars, i + 1, Append(cur, chars[i]))

\* "." dropped, ".." climbing one directory (not above the root).
RECURSIVE Collapse(_, _, _)
Collapse(segs, i, kept) ==
    IF i > Len(segs) THEN kept
    ELSE IF segs[i] = <<".">> THEN Collapse(segs, i + 1, kept)
    ELSE IF segs[i] = <<"..">>
         THEN Collapse(segs, i + 1,
                       IF kept = <<>> THEN kept ELSE SubSeq(kept, 1, Len(kept) - 1))
         ELSE Collapse(segs, i + 1, Append(kept, segs[i]))

RECURSIVE JoinPath(_, _)
JoinPath(segs, i) ==
    IF i > Len(segs) THEN <<>>
    ELSE <<"/">> \o segs[i] \o JoinPath(segs, i + 1)

\* str(Path(p).resolve()) for an absolute path on a filesystem without
\* symbolic links.
Resolve(chars) ==
    LET segs == Collapse(Segments(chars, 1, <<>>), 1, <<>>)
    IN IF segs = <<>> THEN <<"/">> ELSE JoinPath(segs, 1)

\* The directories above a resolved path, the root left out.
Parents(resolved) ==
    LET segs == Segments(resolved, 1, <<>>)
    IN {JoinPath(SubSeq(segs, 1, k), 1) : k \in 1 .. Len(segs) - 1}

\* str.startswith
StartsWith(chars, prefix) ==
    IF Len(prefix) > Len(chars) THEN FALSE
    ELSE SubSeq(chars, 1, Len(prefix)) = prefix

\* str.encode(): UTF-8, one byte for an ASCII character, two for "é".
RECURSIVE Encode(_, _)
Encode(chars, i) ==
    IF i > Len(chars) THEN <<>>
    ELSE (IF chars[i] = "é" THEN <<"0xC3", "0xA9">> ELSE <<chars[i]>>)
             \o Encode(chars, i + 1)

\* bytes.decode(errors="replace"): a byte sequence that is not a whole
\* character becomes U+FFFD.
RECURSIVE Decode(_, _)
Decode(bytes, i) ==
    IF i > Len(bytes) THEN <<>>
    ELSE IF bytes[i] = "0xC3"
         THEN IF i < Len(bytes) /\ bytes[i + 1] = "0xA9"
              THEN <<"é">> \o Decode(bytes, i + 2)
              ELSE <<"U+FFFD">> \o Decode(bytes, i + 1)
         ELSE IF bytes[i] = "0xA9"
              THEN <<"U+FFFD">> \o Decode(bytes, i + 1)
              ELSE <<bytes[i]>> \o Decode(bytes, i + 1)

\* A file: its bytes and, for a SQLite database, the rows of its table.
TextFile(bytes) == [bytes |-> bytes, db |-> FALSE, rows |-> <<>>]

DbFile(rows) == [bytes |-> <<"S", "Q", "L">>, db |-> TRUE, rows |-> rows]

\* The filesystem at the start: a readable file, a file in a sibling
\* directory whose name extends the allowed one, a database of three rows.
InitialDisk ==
    [files |-> (<<"/", "d", "/", "a">> :> TextFile(<<"x", "0xC3", "0xA9">>))
               @@ (<<"/", "d", "p", "/", "x">> :> TextFile(<<"k", "e", "y">>))
               @@ (<<"/", "e", "/", "b">> :> DbFile(<<"row1", "row2", "row3">>)),
     dirs  |-> {<<"/", "d">>, <<"/", "d", "p">>, <<"/", "e">>}]

\* A ToolOutput, or an exception raised out of run.
ToolOutput(success, result, error) ==
    [raised |-> FALSE, success |-> success, result |-> result, error |-> error]

ToolRaised(error) ==
    [raised |-> TRUE, success |-> FALSE, result |-> Null, error |-> error]

\* What a run did: its output, the filesystem afterwards, the paths it
\* opened.
Ran(output, d, io) == [output |-> output, disk |-> d, io |-> io]

\* manifest_data_paths.get(key, default)
CtxGet(ctx, key, default) == IF ctx[key] = Unset THEN default ELSE ctx[key]

\* read_file.py:31-66
read_file_run(ctx, args, d) ==
    IF "path" \notin DOMAIN args THEN Ran(ToolRaised("KeyError"), d, {})
    ELSE IF args["path"].kind # "str" THEN Ran(ToolRaised("TypeError"), d, {})
    ELSE
    LET resolved  == Resolve(args["path"].chars)
        max_bytes == CtxGet(ctx, "max_bytes", IntVal(_DEFAULT_MAX_BYTES))
    IN IF ~\E prefix \in ctx.fs_allow_read : StartsWith(resolved, Resolve(prefix))
       THEN Ran(ToolOutput(FALSE, Null, "Path not allowed"), d, {})
       ELSE IF resolved \notin DOMAIN d.files
            THEN Ran(ToolOutput(FALSE, Null, "OSError"), d, {resolved})
            ELSE LET bytes == d.files[resolved].bytes
                     kept  == IF max_bytes = Null THEN bytes
                              ELSE Slice(bytes, 0, max_bytes.n)
                 IN Ran(ToolOutput(TRUE, Decode(kept, 1), Null), d, {resolved})

\* The rows a query yields on a database.
QueryRows(query, rows) == IF query = "select_all" THEN rows ELSE <<>>

\* sql_query with fetchmany(max_rows) in place of fetchmany(max_rows + 1).
sql_query_run_fetch_cap(ctx, args, d) ==
    IF {"db_path", "query"} \ DOMAIN args # {} THEN Ran(ToolRaised("KeyError"), d, {})
    ELSE IF args["db_path"].kind # "str" THEN Ran(ToolRaised("TypeError"), d, {})
    ELSE
    LET resolved == Resolve(args["db_path"].chars)
        max_rows == CtxGet(ctx, "max_rows", IntVal(_DEFAULT_MAX_ROWS))
    IN IF ~\E a \in ctx.sqlite_allow : resolved = Resolve(a)
       THEN Ran(ToolOutput(FALSE, Null, "Database path not allowed"), d, {})
       ELSE IF resolved \notin DOMAIN d.files
            THEN Ran(ToolOutput(FALSE, Null, "sqlite3.Error"), d, {resolved})
       ELSE IF args["query"].kind # "str"
            THEN Ran(ToolOutput(FALSE, Null, "TypeError"), d, {resolved})
       ELSE IF ~d.files[resolved].db \/ args["query"].chars = "bad"
            THEN Ran(ToolOutput(FALSE, Null, "sqlite3.Error"), d, {resolved})
       ELSE IF max_rows = Null
            THEN Ran(ToolOutput(FALSE, Null, "TypeError"), d, {resolved})
       ELSE LET all_rows == Slice(QueryRows(args["query"].chars, d.files[resolved].rows),
                                  0, max_rows.n)
            IN Ran(ToolOutput(TRUE, [rows |-> Slice(all_rows, 0, max_rows.n),
                                     truncated |-> Len(all_rows) > max_rows.n], Null),
                   d, {resolved})

\* sql_query.py:33-73
sql_query_run(ctx, args, d) ==
    IF {"db_path", "query"} \ DOMAIN args # {} THEN Ran(ToolRaised("KeyError"), d, {})
    ELSE IF args["db_path"].kind # "str" THEN Ran(ToolRaised("TypeError"), d, {})
    ELSE
    LET resolved == Resolve(args["db_path"].chars)
        max_rows == CtxGet(ctx, "max_rows", IntVal(_DEFAULT_MAX_ROWS))
    IN IF ~\E a \in ctx.sqlite_allow : resolved = Resolve(a)
       THEN Ran(ToolOutput(FALSE, Null, "Database path not allowed"), d, {})
       ELSE IF resolved \notin DOMAIN d.files
            THEN Ran(ToolOutput(FALSE, Null, "sqlite3.Error"), d, {resolved})
       ELSE IF args["query"].kind # "str"
            THEN Ran(ToolOutput(FALSE, Null, "TypeError"), d, {resolved})
       ELSE IF ~d.files[resolved].db \/ args["query"].chars = "bad"
            THEN Ran(ToolOutput(FALSE, Null, "sqlite3.Error"), d, {resolved})
       ELSE IF max_rows = Null
            THEN Ran(ToolOutput(FALSE, Null, "TypeError"), d, {resolved})
       ELSE LET all_rows == Slice(QueryRows(args["query"].chars, d.files[resolved].rows),
                                  0, max_rows.n + 1)
            IN Ran(ToolOutput(TRUE, [rows |-> Slice(all_rows, 0, max_rows.n),
                                     truncated |-> Len(all_rows) > max_rows.n], Null),
                   d, {resolved})

\* resolved.parent.mkdir(parents=True, exist_ok=True) then
\* resolved.write_text(content) (write_file.py:62-63): the filesystem
\* afterwards, whether both succeeded, and whether the path was opened: mkdir
\* raises, before anything is opened, when a parent is a file.
WriteText(d, resolved, content) ==
    IF \E dir \in Parents(resolved) : dir \in DOMAIN d.files
    THEN [ok |-> FALSE, disk |-> d, opened |-> {}]
    ELSE LET made == [d EXCEPT !.dirs = @ \cup Parents(resolved)]
         IN IF resolved \in made.dirs \/ resolved = <<"/">>
            THEN [ok |-> FALSE, disk |-> made, opened |-> {resolved}]
            ELSE [ok |-> TRUE,
                  disk |-> [made EXCEPT !.files =
                               (resolved :> TextFile(Encode(content, 1))) @@ @],
                  opened |-> {resolved}]

\* write_file with the size of the content checked after the write.
write_file_run_check_late(ctx, args, d) ==
    IF {"path", "content"} \ DOMAIN args # {} THEN Ran(ToolRaised("KeyError"), d, {})
    ELSE IF args["path"].kind # "str" THEN Ran(ToolRaised("TypeError"), d, {})
    ELSE
    LET resolved  == Resolve(args["path"].chars)
        max_bytes == CtxGet(ctx, "max_bytes", IntVal(_DEFAULT_MAX_BYTES))
    IN IF ~\E prefix \in ctx.fs_allow_write : StartsWith(resolved, Resolve(prefix))
       THEN Ran(ToolOutput(FALSE, Null, "Path not allowed"), d, {})
       ELSE IF args["content"].kind # "str"
            THEN Ran(ToolRaised("AttributeError"), d, {})
       ELSE IF max_bytes = Null THEN Ran(ToolRaised("TypeError"), d, {})
       ELSE LET written == WriteText(d, resolved, args["content"].chars)
            IN IF ~written.ok
               THEN Ran(ToolOutput(FALSE, Null, "OSError"), written.disk, written.opened)
               ELSE IF Len(Encode(args["content"].chars, 1)) > max_bytes.n
                    THEN Ran(ToolOutput(FALSE, Null, "Content exceeds max_bytes limit"),
                             written.disk, {resolved})
                    ELSE Ran(ToolOutput(TRUE,
                                 [bytes_written |-> Len(Encode(args["content"].chars, 1))],
                                 Null),
                             written.disk, {resolved})

\* write_file.py:32-76
write_file_run(ctx, args, d) ==
    IF {"path", "content"} \ DOMAIN args # {} THEN Ran(ToolRaised("KeyError"), d, {})
    ELSE IF args["path"].kind # "str" THEN Ran(ToolRaised("TypeError"), d, {})
    ELSE
    LET resolved  == Resolve(args["path"].chars)
        max_bytes == CtxGet(ctx, "max_bytes", IntVal(_DEFAULT_MAX_BYTES))
    IN IF ~\E prefix \in ctx.fs_allow_write : StartsWith(resolved, Resolve(prefix))
       THEN Ran(ToolOutput(FALSE, Null, "Path not allowed"), d, {})
       ELSE IF args["content"].kind # "str"
            THEN Ran(ToolRaised("AttributeError"), d, {})
       ELSE IF max_bytes = Null THEN Ran(ToolRaised("TypeError"), d, {})
       ELSE IF Len(Encode(args["content"].chars, 1)) > max_bytes.n
            THEN Ran(ToolOutput(FALSE, Null, "Content exceeds max_bytes limit"), d, {})
       ELSE LET written == WriteText(d, resolved, args["content"].chars)
            IN IF ~written.ok
               THEN Ran(ToolOutput(FALSE, Null, "OSError"), written.disk, written.opened)
               ELSE Ran(ToolOutput(TRUE,
                            [bytes_written |-> Len(Encode(args["content"].chars, 1))],
                            Null),
                        written.disk, {resolved})

\* A tool's run with its context and arguments, the filesystem before it,
\* its output and the paths it opened.
ToolReply(op, ctx, args, ran) ==
    [op |-> op, ctx |-> ctx, args |-> args, before |-> disk,
     result |-> ran.output, io |-> ran.io]

\* read_file.py:31-66
ReadFile(ctx, args) ==
    /\ reply' = ToolReply("read_file", ctx, args, read_file_run(ctx, args, disk))
    /\ disk' = read_file_run(ctx, args, disk).disk
    /\ UNCHANGED <<file, lock, th, tail, logged, posted>>
    /\ UNCHANGED routerVars

\* sql_query.py:33-73
SqlQuery(ctx, args) ==
    /\ reply' = ToolReply("sql_query", ctx, args, sql_query_run(ctx, args, disk))
    /\ disk' = sql_query_run(ctx, args, disk).disk
    /\ UNCHANGED <<file, lock, th, tail, logged, posted>>
    /\ UNCHANGED routerVars

\* write_file.py:32-76
WriteFile(ctx, args) ==
    /\ reply' = ToolReply("write_file", ctx, args, write_file_run(ctx, args, disk))
    /\ disk' = write_file_run(ctx, args, disk).disk
    /\ UNCHANGED <<file, lock, th, tail, logged, posted>>
    /\ UNCHANGED routerVars

\* tool_router.py:141-157: manifest_data_paths as the router builds it from
\* the manifest, and (all caps Unset) as a caller that leaves the caps out.
ToolContext(sqlite_allow, fs_allow_read, fs_allow_write, max_rows, max_bytes) ==
    [sqlite_allow |-> sqlite_allow, fs_allow_read |-> fs_allow_read,
     fs_allow_write |-> fs_allow_write, max_rows |-> max_rows, max_bytes |-> max_bytes]

Contexts ==
    { ToolContext({<<"/", "e", "/", "b">>}, {<<"/", "d">>}, {<<"/", "w">>}, IntVal(2), IntVal(2)),
      ToolContext({<<"/", "e", "/", "b">>}, {<<"/", "d">>}, {<<"/", "w">>}, IntVal(3), IntVal(3)),
      ToolContext({<<"/", "e", "/", "b">>}, {<<"/", "d">>}, {<<"/", "w">>}, IntVal(0), Null),
      ToolContext({<<"/", "e", "/", "b">>}, {<<"/", "d">>}, {<<"/", "w">>}, Null, IntVal(0)),
      ToolContext({}, {}, {}, Unset, Unset) }

ReadFileArgs ==
    {[path |-> Str(p)] :
        p \in { <<"/", "d", "/", "a">>, <<"/", "d", "/", "n">>, <<"/", "d">>,
                <<"/", "d", "p", "/", "x">>, <<"/", "e", "/", "b">>,
                <<"/", "d", "/", "..", "/", "e", "/", "b">>,
                <<"/", "d", "/", ".", "/", "a">> }}
        \cup {EmptyDict, [path |-> IntVal(5)]}

SqlQueryArgs ==
    {[db_path |-> Str(p), query |-> Str(q)] :
        p \in { <<"/", "e", "/", "b">>, <<"/", "e", "/", "..", "/", "e", "/", "b">>,
                <<"/", "d", "/", "a">>, <<"/", "e", "/", "n">> },
        q \in {"select_all", "select_none", "bad"}}
        \cup {EmptyDict, [db_path |-> Str(<<"/", "e", "/", "b">>)],
              [db_path |-> IntVal(5), query |-> Str("select_all")],
              [db_path |-> Str(<<"/", "e", "/", "b">>), query |-> IntVal(5)]}

WriteFileArgs ==
    {[path |-> Str(p), content |-> Str(c)] :
        p \in { <<"/", "w", "/", "a">>, <<"/", "w", "/", "n", "/", "a">>,
                <<"/", "w", "/", "..", "/", "d", "/", "a">>, <<"/", "d", "/", "a">> },
        c \in { <<>>, <<"x", "y">>, <<"x", "é">>, <<"x", "y", "z", "w">> }}
        \cup {EmptyDict, [path |-> Str(<<"/", "w", "/", "a">>)],
              [path |-> Str(<<"/", "w", "/", "a">>), content |-> IntVal(5)],
              [path |-> Str(<<"/", "w", "/", "a", "/", "b">>), content |-> Str(<<"x", "y">>)]}

----------------------------------------------------------------------------
(* The policy engine on its own *)

\* policy.py:21-22
LoadManifest(m) ==
    /\ manifest' = m
    /\ reply' = NoReply
    /\ UNCHANGED <<run, log, origin, invoked, chat_calls, limit, client_messages, mcp>>
    /\ UNCHANGED <<file, lock, th, tail, logged, disk, posted>>

\* policy.py:32-60, called with a ToolInput naming tool_name.
CheckTool(tool_name) ==
    /\ reply' = [op |-> "check_tool", args |-> [tool_name |-> tool_name],
                 result |-> check_tool(manifest, tool_name)]
    /\ UNCHANGED <<file, lock, th, tail, logged, disk, posted>>
    /\ UNCHANGED routerVars

\* policy.py:64-150
CheckDataAccess(path, access) ==
    /\ reply' = [op |-> "check_data_access", args |-> [path |-> path, access |-> access],
                 result |-> check_data_access(manifest, path, access)]
    /\ UNCHANGED <<file, lock, th, tail, logged, disk, posted>>
    /\ UNCHANGED routerVars

----------------------------------------------------------------------------
(* The model adapter: OllamaAdapter.chat and its format helpers *)

\* A text is a sequence of pieces: a word (no braces, fences or blanks),
\* white space, a ``` fence (with or without the json tag), the text of a
\* JSON value as json.dumps writes it (keys in the order of KeyOrder), the
\* text of an object with keys that has one malformation at the last key k of
\* its outermost object, a brace-delimited text that is not JSON ("{oops}"),
\* or the first part of a JSON piece. The malformations: "escaped_quote"
\* writes "k\": where json.dumps writes "k": and "missing_colon" writes "k
\* directly before the value where json.dumps writes "k": and a blank.
Text(tokens) == [kind |-> "text", tokens |-> tokens]

Word(s) == [t |-> "word", s |-> s]

Space == [t |-> "space"]

Fence == [t |-> "fence"]

Json(v) == [t |-> "json", v |-> v, flaw |-> "none"]

Flawed(v, flaw) == [t |-> "json", v |-> v, flaw |-> flaw]

Broken == [t |-> "broken"]

\* d.get(key) on a parsed object: None when the key is absent.
ObjGet(v, key) == IF key \in DOMAIN v.fields THEN v.fields[key] ELSE Null

\* str.strip() on a text.
RECURSIVE LStrip(_)
LStrip(toks) ==
    IF toks # <<>> /\ Head(toks).t = "space" THEN LStrip(Tail(toks)) ELSE toks

RECURSIVE RStrip(_)
RStrip(toks) ==
    IF toks # <<>> /\ toks[Len(toks)].t = "space"
    THEN RStrip(SubSeq(toks, 1, Len(toks) - 1)) ELSE toks

StripText(toks) == RStrip(LStrip(toks))

\* The first position at or after i that is not white space (Len + 1 if none).
RECURSIVE SkipSpace(_, _)
SkipSpace(toks, i) ==
    IF i <= Len(toks) /\ toks[i].t = "space" THEN SkipSpace(toks, i + 1) ELSE i

\* A piece that starts with "{" and ends with "}".
Braced(tok) == tok.t = "broken" \/ (tok.t = "json" /\ tok.v.kind = "obj")

\* json.loads of the pieces from..to: a value only for one well-formed piece.
Loads(toks, from, to) ==
    IF from = to /\ toks[from].t = "json" /\ toks[from].flaw = "none"
    THEN [ok |-> TRUE, value |-> toks[from].v]
    ELSE [ok |-> FALSE]

NoMatch == [found |-> FALSE]

\* ollama.py:61: re.search(r'```(?:json)?\s*(\{.*?\})\s*```', content, re.DOTALL):
\* the leftmost fence followed by a "{", and from there the nearest "}" that a
\* fence follows.
FencedBlock(toks) ==
    LET Open(i)  == SkipSpace(toks, i + 1)
        Ends(i)  == {k \in Open(i) .. Len(toks) :
                        /\ Braced(toks[k])
                        /\ SkipSpace(toks, k + 1) <= Len(toks)
                        /\ toks[SkipSpace(toks, k + 1)].t = "fence"}
        starts   == {i \in 1 .. Len(toks) :
                        /\ toks[i].t = "fence"
                        /\ Open(i) <= Len(toks)
                        /\ Braced(toks[Open(i)])
                        /\ Ends(i) # {}}
    IN IF starts = {} THEN NoMatch
       ELSE LET i == CHOOSE s \in starts : \A o \in starts : s <= o
                k == CHOOSE e \in Ends(i) : \A o \in Ends(i) : e <= o
            IN [found |-> TRUE, start |-> i, from |-> Open(i), to |-> k]

\* The keys of the objects of the model's texts, in the order json.dumps
\* writes them.
KeyOrder ==
    << "tool_call", "name", "arguments", "parameters", "db_path", "path", "query",
       "result", "status" >>

\* The members of a set of keys, one after the other.
RECURSIVE InSomeOrder(_)
InSomeOrder(S) ==
    IF S = {} THEN <<>>
    ELSE LET k == CHOOSE x \in S : TRUE IN <<k>> \o InSomeOrder(S \ {k})

\* The keys of an object in the order its text has them.
KeysInOrder(fields) ==
    SelectSeq(KeyOrder, LAMBDA k : k \in DOMAIN fields)
        \o InSomeOrder(DOMAIN fields \ {KeyOrder[i] : i \in 1 .. Len(KeyOrder)})

\* The strings of the model that hold a "}" followed by a "}".
ClosingBraces == {"a}}"}

\* The text json.dumps writes for v, as the sequence of its lexemes: "{"
\* (with the object it opens), a key, a string, another atom, "}", "[", "]".
\* Between two lexemes the text has at most '"', ':', ',' and one blank.
RECURSIVE Lex(_)
RECURSIVE LexMembers(_, _, _)
RECURSIVE LexItems(_, _)
Lex(v) ==
    IF v.kind = "obj"
    THEN <<[l |-> "{", v |-> v]>> \o LexMembers(v.fields, KeysInOrder(v.fields), 1)
             \o <<[l |-> "}"]>>
    ELSE IF v.kind = "list" THEN <<[l |-> "["]>> \o LexItems(v.items, 1) \o <<[l |-> "]"]>>
    ELSE IF v.kind = "str" THEN <<[l |-> "str", s |-> v.chars]>>
    ELSE <<[l |-> "atom"]>>

LexMembers(fields, keys, i) ==
    IF i > Len(keys) THEN <<>>
    ELSE <<[l |-> "key", s |-> keys[i]]>> \o Lex(fields[keys[i]])
             \o LexMembers(fields, keys, i + 1)

LexItems(items, i) ==
    IF i > Len(items) THEN <<>> ELSE Lex(items[i]) \o LexItems(items, i + 1)

\* The last key of the outermost object of a piece.
LastKey(v) == LET keys == KeysInOrder(v.fields) IN keys[Len(keys)]

\* The place, among the lexemes of a piece, of the key that is malformed
\* (0 when the piece is well formed).
FlawedKeyAt(tok) ==
    IF tok.flaw = "none" THEN 0
    ELSE Len(Lex(tok.v)) - 1 - Len(Lex(tok.v.fields[LastKey(tok.v)]))

\* The lexemes of the JSON pieces of a text, each with its piece p, its
\* place o in the piece and whether it is the malformed key. The other pieces hold no '{"tool_call"' and no "}"
\* that a "}" follows.
RECURSIVE TextLex(_, _)
TextLex(toks, p) ==
    IF p > Len(toks) THEN <<>>
    ELSE LET ls == IF toks[p].t = "json" THEN Lex(toks[p].v) ELSE <<>>
             at == IF toks[p].t = "json" THEN FlawedKeyAt(toks[p]) ELSE 0
         IN [o \in 1 .. Len(ls) |-> [p |-> p, o |-> o, lx |-> ls[o], flawed |-> o = at]]
                \o TextLex(toks, p + 1)

\* The first n lexemes of a JSON piece, with what separates them from the
\* next one: what a text keeps of the piece when it is cut there.
Cut(tok, n) == [t |-> "cut", v |-> tok.v, flaw |-> tok.flaw, n |-> n]

\* ollama.py:83: re.search(r'\{"tool_call"\s*:\s*\{.*?\}\s*\}', content, re.DOTALL):
\* the leftmost {"tool_call": { of the text, at the top of a JSON piece or
\* nested in it (a malformed "tool_call key is none), and from there the
\* nearest "}" that white space and a "}" follow, wherever it is (in a
\* string, in a later piece). json.loads reads
\* the match only if it is exactly the object that starts there, and not if
\* it is a whole malformed piece. `before` is content[:start].
BareMatch(toks, lex) ==
    LET IsStart(i) == /\ i + 2 <= Len(lex)
                      /\ lex[i].lx.l = "{"
                      /\ lex[i + 1].lx.l = "key"
                      /\ lex[i + 1].lx.s = "tool_call"
                      /\ ~lex[i + 1].flawed
                      /\ lex[i + 2].lx.l = "{"
        IsEnd(j) == IF lex[j].lx.l \in {"str", "key"} THEN lex[j].lx.s \in ClosingBraces
                    ELSE /\ lex[j].lx.l = "}"
                         /\ j < Len(lex)
                         /\ lex[j + 1].lx.l = "}"
        starts == {i \in 1 .. Len(lex) : IsStart(i)}
    IN IF starts = {} THEN NoMatch
       ELSE LET i    == CHOOSE s \in starts : \A o \in starts : s <= o
                ends == {j \in i + 3 .. Len(lex) : IsEnd(j)}
            IN IF ends = {} THEN NoMatch
               ELSE LET j     == CHOOSE e \in ends : \A o \in ends : e <= o
                        whole == /\ lex[j].lx.l = "}"
                                 /\ j + 1 = i + Len(Lex(lex[i].lx.v)) - 1
                        tok   == toks[lex[i].p]
                    IN [found  |-> TRUE,
                        parsed |-> IF whole /\ ~(tok.flaw # "none" /\ lex[i].o = 1)
                                   THEN [ok |-> TRUE, value |-> lex[i].lx.v]
                                   ELSE [ok |-> FALSE],
                        before |-> SubSeq(toks, 1, lex[i].p - 1)
                                       \o (IF lex[i].o = 1 THEN <<>>
                                           ELSE <<Cut(tok, lex[i].o - 1)>>)]

\* The search of line 83 on a text: on its lexemes.
BareCall(toks) == CHOOSE m \in {BareMatch(toks, lex) : lex \in {TextLex(toks, 1)}} : TRUE

\* What an extraction gives: a directive and the remaining content, nothing
\* (the content stays), or a validation error that leaves the adapter.
Extracted(tool_call, content) == [raised |-> FALSE, tool_call |-> <<tool_call>>, content |-> content]

NotExtracted(content) == [raised |-> FALSE, tool_call |-> <<>>, content |-> content]

ExtractRaised == [raised |-> TRUE]

\* ToolCall(id="call_0", function=ToolCallFunction(name=..., arguments=...)):
\* name is validated as a str.
CallZero(name, args) ==
    [id |-> "call_0", function |-> [name |-> name.chars, arguments |-> ArgsStr(args)]]

\* ollama.py:63-80 and 85-102: one attempt of _extract_tool_call_from_text on
\* what json.loads makes of a regex match and the text before the match.
TryMatch(parsed, text_before) ==
    IF ~parsed.ok THEN [done |-> FALSE]
    ELSE LET tc == ObjGet(parsed.value, "tool_call") IN
         IF tc.kind = "obj" /\ "name" \in DOMAIN tc.fields
         THEN LET args      == IF "arguments" \in DOMAIN tc.fields
                               THEN tc.fields["arguments"] ELSE Obj(EmptyDict)
                  before    == StripText(text_before)
                  remaining == IF before = <<>> THEN Null ELSE Text(before)
              IN IF tc.fields["name"].kind # "str"
                 THEN [done |-> TRUE, out |-> ExtractRaised]
                 ELSE [done |-> TRUE,
                       out |-> Extracted(CallZero(tc.fields["name"], args), remaining)]
         ELSE [done |-> FALSE]

\* ollama.py:52-104
_extract_tool_call_from_text(content) ==
    IF content = Null THEN NotExtracted(content)
    ELSE IF content.tokens = <<>> THEN NotExtracted(content)
    ELSE LET toks   == content.tokens
             fenced == FencedBlock(toks)
             first  == IF fenced.found
                       THEN TryMatch(Loads(toks, fenced.from, fenced.to),
                                     SubSeq(toks, 1, fenced.start - 1))
                       ELSE [done |-> FALSE]
             bare   == BareCall(toks)
             second == IF bare.found THEN TryMatch(bare.parsed, bare.before)
                       ELSE [done |-> FALSE]
         IN IF first.done THEN first.out
            ELSE IF second.done THEN second.out
            ELSE NotExtracted(content)

\* ollama.py:18
_NO_NATIVE_TOOLS == {"gemma3", "gemma2", "gemma"}

\* ollama.py:21-23: model.split(":")[0].split("/")[-1], on a model name given
\* as its parts and the separators between them.
_model_family(model) ==
    LET colons  == {i \in 1 .. Len(model) : model[i] = ":"}
        stop    == IF colons = {} THEN Len(model) + 1
                   ELSE CHOOSE i \in colons : \A o \in colons : i <= o
        head    == SubSeq(model, 1, stop - 1)
        slashes == {i \in 1 .. Len(head) : head[i] = "/"}
        start   == IF slashes = {} THEN 0
                   ELSE CHOOSE i \in slashes : \A o \in slashes : i >= o
        last    == SubSeq(head, start + 1, Len(head))
    IN IF last = <<>> THEN "" ELSE last[1]

\* ollama.py:120-123
PromptTools(model, tools) == tools # <<>> /\ _model_family(model) \in _NO_NATIVE_TOOLS

\* An adapter call that ends in an exception.
AdapterRaised(error) == [raised |-> TRUE, error |-> error]

\* The strings of the model whose JSON text holds \": (an escaped quote that
\* a colon follows) or "parameters{ or "arguments{.
RepairedStrings == {"SELECT \"a\":1", "x \"parameters{", "{\"path\": \"/tmp/x.txt\"}"}

\* ollama.py:252-254: the two repairs rewrite every such place of the text,
\* inside its strings too, and what they leave of a well-formed text that has
\* one is no JSON.
RECURSIVE SpoiledByRepair(_)
SpoiledByRepair(v) ==
    IF v.kind = "str" THEN v.chars \in RepairedStrings
    ELSE IF v.kind = "list" THEN \E i \in 1 .. Len(v.items) : SpoiledByRepair(v.items[i])
    ELSE IF v.kind = "obj"
    THEN \/ DOMAIN v.fields \cap RepairedStrings # {}
         \/ \E k \in DOMAIN v.fields : SpoiledByRepair(v.fields[k])
    ELSE FALSE

\* ollama.py:252-254 on a malformed piece: the replace of line 252 mends an
\* escaped quote at any key, the sub of line 254 a missing colon only at the
\* key parameters or arguments before an object.
Mended(tok) ==
    \/ tok.flaw \in {"none", "escaped_quote"}
    \/ /\ tok.flaw = "missing_colon"
       /\ LastKey(tok.v) \in {"parameters", "arguments"}
       /\ tok.v.fields[LastKey(tok.v)].kind = "obj"

\* ollama.py:217-281. tool_calls = <<>> stands for None. The two repairs of
\* lines 252-254 make a malformed object text parse when they mend it and
\* spoil a text that holds what they rewrite inside a string;
\* ToolCallFunction validates name as a str.
_from_ollama_response(msg_data) ==
    LET content == IF msg_data.content = Unset THEN Null
                   ELSE IF msg_data.content = Null THEN Null
                   ELSE IF msg_data.content.tokens = <<>> THEN Null
                   ELSE msg_data.content
        raw_calls == msg_data.tool_calls
        Call(i) == LET tc == raw_calls[i] IN
                   [id |-> IF tc.id = None THEN GeneratedId(i - 1) ELSE tc.id,
                    function |-> [name |-> tc.name, arguments |-> ArgsStr(tc.arguments)]]
    IN IF Len(raw_calls) > 0
       THEN [raised |-> FALSE,
             message |-> Message("assistant", content,
                                 [i \in 1 .. Len(raw_calls) |-> Call(i)], None)]
       ELSE LET plain   == [raised |-> FALSE,
                            message |-> Message("assistant", content, <<>>, None)]
                cleaned == IF content = Null THEN <<>> ELSE StripText(content.tokens)
            IN IF cleaned = <<>> THEN plain
               ELSE IF ~Braced(cleaned[1]) THEN plain
               ELSE IF Len(cleaned) # 1 \/ cleaned[1].t # "json" THEN plain
               ELSE IF ~Mended(cleaned[1]) \/ SpoiledByRepair(cleaned[1].v) THEN plain
               ELSE LET parsed == cleaned[1].v IN
                    IF "name" \notin DOMAIN parsed.fields THEN plain
                    ELSE LET first == ObjGet(parsed, "arguments")
                             args  == IF Truthy(first) THEN first
                                      ELSE IF "parameters" \in DOMAIN parsed.fields
                                           THEN parsed.fields["parameters"]
                                           ELSE Obj(EmptyDict)
                         IN IF ~Truthy(args) THEN plain
                            ELSE IF parsed.fields["name"].kind # "str"
                                 THEN AdapterRaised("ValidationError")
                                 ELSE [raised |-> FALSE,
                                       message |-> Message("assistant", Null,
                                           <<CallZero(parsed.fields["name"], args)>>, None)]

\* A message of the payload. A content key the code does not set is Unset;
\* tool_calls = <<>> and tool_call_id = None stand for keys that are not set
\* (an empty list and None are never set).
Outbound(role, content, tool_calls, tool_call_id) ==
    [role |-> role, content |-> content, tool_calls |-> tool_calls,
     tool_call_id |-> tool_call_id]

\* ollama.py:189-196: the fenced block an assistant's first directive is
\* rewritten into, after the assistant's own text.
CallText(content, tc) ==
    LET text == IF content = Null THEN <<>> ELSE content.tokens
        call == Obj([tool_call |-> Obj([name |-> Str(tc.function.name),
                                        arguments |-> tc.function.arguments.value])])
    IN Text(StripText(text \o <<Space, Fence, Space, Json(call), Space, Fence>>))

\* ollama.py:175-213, one message. json.loads of the directive's arguments
\* raises on text that is not JSON.
BuildMessage(msg, prompt_tools) ==
    LET content == IF msg.content = Null THEN Unset ELSE msg.content IN
    IF prompt_tools
    THEN IF msg.role = "tool"
         THEN Outbound("user",
                       Text(<<Word("Tool result:"), Space>>
                            \o (IF msg.content = Null THEN <<Word("None")>>
                                ELSE msg.content.tokens)),
                       <<>>, None)
         ELSE IF Len(msg.tool_calls) > 0
              THEN IF ~IsDecodable(msg.tool_calls[1].function.arguments)
                   THEN AdapterRaised("JSONDecodeError")
                   ELSE Outbound(msg.role, CallText(msg.content, msg.tool_calls[1]),
                                 <<>>, None)
              ELSE Outbound(msg.role, content, <<>>, None)
    ELSE IF \E i \in 1 .. Len(msg.tool_calls) :
                ~IsDecodable(msg.tool_calls[i].function.arguments)
         THEN AdapterRaised("JSONDecodeError")
         ELSE Outbound(msg.role, content,
                       [i \in 1 .. Len(msg.tool_calls) |->
                           RawCall(msg.tool_calls[i].function.name,
                                   msg.tool_calls[i].function.arguments.value, None)],
                       msg.tool_call_id)

\* ollama.py:166-215
_build_messages(messages, prompt_tools) ==
    LET out == [i \in 1 .. Len(messages) |-> BuildMessage(messages[i], prompt_tools)] IN
    IF \E i \in 1 .. Len(out) : "raised" \in DOMAIN out[i]
    THEN AdapterRaised("JSONDecodeError")
    ELSE [raised |-> FALSE, messages |-> out]

\* ollama.py:26-49, as one piece of text.
ToolPrompt == Word("## Tool Calling")

\* ollama.py:130-140: the tool prompt is appended to the first system message,
\* or a system message carrying it is put first.
InjectPrompt(out) ==
    LET systems == {i \in 1 .. Len(out) : out[i].role = "system"} IN
    IF systems = {} THEN <<Outbound("system", Text(<<ToolPrompt>>), <<>>, None)>> \o out
    ELSE LET i == CHOOSE s \in systems : \A o \in systems : s <= o
             old == IF out[i].content = Unset THEN <<>> ELSE out[i].content.tokens
         IN [out EXCEPT ![i].content = Text(old \o <<ToolPrompt>>)]

\* ollama.py:120-142: the payload of a call, or the exception building it
\* raises.
BuildPayload(messages, model, tools) ==
    LET prompt_tools == PromptTools(model, tools)
        built        == _build_messages(messages, prompt_tools)
    IN IF built.raised THEN built
       ELSE [raised |-> FALSE,
             payload |-> [messages |-> IF prompt_tools THEN InjectPrompt(built.messages)
                                       ELSE built.messages,
                          tools    |-> IF prompt_tools THEN <<>> ELSE tools]]

\* ollama.py:148-162: the message returned for the reply `data` to the
\* payload of `call`.
ReadReply(call, data) ==
    LET prompt_tools == PromptTools(call.model, call.tools)
        result       == _from_ollama_response(data)
    IN IF result.raised THEN result
       ELSE IF prompt_tools /\ result.message.content # Null
               /\ Len(result.message.tool_calls) = 0
            THEN LET ex == _extract_tool_call_from_text(result.message.content) IN
                 IF ex.raised THEN AdapterRaised("ValidationError")
                 ELSE IF Len(ex.tool_call) > 0
                      THEN [raised |-> FALSE, payload |-> call.payload,
                            message |-> Message("assistant", ex.content,
                                                ex.tool_call, None)]
                      ELSE [raised |-> FALSE, payload |-> call.payload,
                            message |-> result.message]
            ELSE [raised |-> FALSE, payload |-> call.payload, message |-> result.message]

\* A canonical assistant message sent out in native-tools form and read back
\* as the backend's reply.
round_trip(msg) ==
    LET out == BuildMessage(msg, FALSE) IN
    IF "raised" \in DOMAIN out THEN out ELSE _from_ollama_response(out)

RoundTrip(msg) ==
    /\ reply' = [op |-> "round_trip", message |-> msg, result |-> round_trip(msg)]
    /\ UNCHANGED <<file, lock, th, tail, logged, disk, posted>>
    /\ UNCHANGED routerVars

\* Directives as the canonical form holds them.
Directive0(id, name, arguments) ==
    [id |-> id, function |-> [name |-> name, arguments |-> arguments]]

PathArgs == Obj([path |-> Str("/tmp/x.txt")])

QueryArgs == Obj([db_path |-> Str("t.db"), query |-> Str("SELECT 1")])

\* The assistant messages of earlier turns.
AssistantMessages ==
    { Message("assistant", Null, <<Directive0("call_0", "read_file", JsonDumps(PathArgs))>>, None),
      Message("assistant", Text(<<Word("Reading.")>>),
              <<Directive0("call_0", "sql_query", JsonDumps(QueryArgs)),
                Directive0("call_1", "read_file", JsonDumps(PathArgs))>>, None),
      Message("assistant", Null, <<Directive0("call_123", "read_file", JsonDumps(PathArgs))>>, None),
      Message("assistant", Text(<<Word("done")>>), <<>>, None),
      Message("assistant", Null, <<Directive0("call_0", "read_file", Repr(Str("oops")))>>, None) }

\* The conversations handed to chat: the request's messages, then each
\* assistant message with the tool-role answers to its directives.
Conversation(system, assistant) ==
    system \o <<Message("user", Text(<<Word("hello")>>), <<>>, None)>>
           \o <<assistant>>
           \o [i \in 1 .. Len(assistant.tool_calls) |->
                  Message("tool", Text(<<Json(Obj([result |-> Str("ok")]))>>), <<>>,
                          assistant.tool_calls[i].id)]

Conversations ==
    { Conversation(<<>>, a) : a \in AssistantMessages }
    \cup { Conversation(<<Message("system", Text(<<Word("Be brief.")>>), <<>>, None)>>, a) :
              a \in AssistantMessages }
    \cup { <<Message("user", Text(<<Word("hello")>>), <<>>, None)>> }

\* Model names, as their parts and separators.
Models ==
    { <<"llama3", ":", "8b">>, <<"gemma3", ":", "12b">>,
      <<"library", "/", "gemma", ":", "7b">>, <<"gemma3n">> }

\* registry.get_openai_definitions() or None
ToolDefs == { <<>>, <<"read_file", "sql_query">> }

ToolCallText(name, args) == Json(Obj([tool_call |-> Obj([name |-> name, arguments |-> args])]))

\* The "message" objects of the backend's replies.
Reply(content, tool_calls) == [content |-> content, tool_calls |-> tool_calls]

Replies ==
    { Reply(Text(<<Word("done")>>), <<>>),
      Reply(Text(<<>>), <<RawCall("read_file", PathArgs, None)>>),
      Reply(Text(<<Json(Obj([name |-> Str("fake_tool"), arguments |-> Obj(EmptyDict)]))>>),
            <<RawCall("sql_query", QueryArgs, "call_123"), RawCall("read_file", PathArgs, None)>>),
      Reply(Text(<<>>), <<RawCall("read_file", List(<<IntVal(1)>>), None)>>),
      Reply(Text(<<Word("Let me look."), Space, Fence, Space,
                   ToolCallText(Str("read_file"), PathArgs), Space, Fence>>), <<>>),
      Reply(Text(<<Fence, ToolCallText(Str("read_file"), PathArgs), Fence>>), <<>>),
      Reply(Text(<<Fence, Json(Obj([tool_call |-> Obj([name |-> Str("sql_query")])])), Fence>>), <<>>),
      Reply(Text(<<Fence, Json(PathArgs), Space, Word("then"), Space,
                   ToolCallText(Str("read_file"), PathArgs), Fence>>), <<>>),
      Reply(Text(<<Word("Calling"), Space,
                   Json(Obj([tool_call |-> Obj([name |-> Str("sql_query")])]))>>), <<>>),
      Reply(Text(<<Json(Obj([name |-> Str("sql_query"), parameters |-> QueryArgs]))>>), <<>>),
      Reply(Text(<<Space, Flawed(Obj([name |-> Str("sql_query"), parameters |-> QueryArgs]),
                                 "missing_colon")>>), <<>>),
      Reply(Text(<<Json(Obj([name |-> Str("list_tables"), arguments |-> Obj(EmptyDict)]))>>), <<>>),
      Reply(Text(<<Json(Obj([result |-> Str("some data"), status |-> Str("ok")]))>>), <<>>),
      Reply(Text(<<Json(Obj([name |-> IntVal(5), arguments |-> PathArgs]))>>), <<>>),
      Reply(Text(<<Json(Obj([name |-> Str("sql_query"),
                             arguments |-> Obj([query |-> Str("SELECT \"a\":1")])]))>>), <<>>),
      Reply(Text(<<Json(Obj([name |-> Str("sql_query"),
                             parameters |-> Obj([query |-> Str("x \"parameters{")])]))>>), <<>>),
      Reply(Text(<<Json(Obj([tool_call |-> Obj([name |-> Str("a}}")])]))>>), <<>>),
      Reply(Text(<<Word("Calling"), Space,
                   Json(Obj([tool_call |-> Obj([name |-> Str("read_file"),
                                                arguments |-> List(<<PathArgs>>)])]))>>), <<>>),
      Reply(Text(<<Json(Obj([result |-> Obj([tool_call |-> Obj([name |-> Str("read_file")])])]))>>),
            <<>>),
      Reply(Text(<<Word("x"), Space,
                   Json(List(<<Obj([tool_call |-> Obj([name |-> Str("read_file")])])>>))>>), <<>>),
      Reply(Text(<<Word("x"), Space,
                   Json(Obj([tool_call |-> Obj([name |-> Str("read_file"), arguments |-> PathArgs]),
                             status |-> Str("ok")]))>>), <<>>),
      Reply(Text(<<Json(Obj([tool_call |-> Obj([name |-> Str("read_file")]),
                             status |-> Str("ok")])), Space,
                   Json(Obj([result |-> Obj([status |-> Str("ok")])]))>>), <<>>),
      Reply(Text(<<Flawed(Obj([tool_call |-> Obj([name |-> Str("sql_query")])]),
                          "escaped_quote"), Space,
                   Json(Obj([tool_call |-> Obj([name |-> Str("read_file")])]))>>), <<>>),
      Reply(Text(<<Json(Obj([result |-> Obj([tool_call |-> Obj([name |-> Str("read_file")])])])),
                   Space,
                   Flawed(Obj([tool_call |-> Obj([name |-> Str("sql_query")])]),
                          "escaped_quote")>>), <<>>),
      Reply(Text(<<Flawed(Obj([tool_call |-> Obj([name |-> Str("sql_query")])]),
                          "missing_colon")>>), <<>>),
      Reply(Text(<<Flawed(Obj([name |-> Str("sql_query"), parameters |-> QueryArgs]),
                          "escaped_quote")>>), <<>>),
      Reply(Text(<<Json(Obj([name |-> Str("read_file"), arguments |-> Bool(TRUE)]))>>), <<>>),
      Reply(Text(<<Json(Obj([name |-> Str("read_file"),
                             arguments |-> Str("{\"path\": \"/tmp/x.txt\"}")]))>>), <<>>),
      Reply(Text(<<Word("x"), Space,
                   ToolCallText(Str("read_file"), Bool(TRUE))>>), <<>>),
      Reply(Text(<<Broken>>), <<>>),
      Reply(Unset, <<>>) }

\* The calls made while another call awaits its answer: one to a backend with
\* native tools, one to a backend without.
Overlapping ==
    { [messages |-> Conversation(<<>>, Message("assistant", Text(<<Word("done")>>), <<>>, None)),
       model |-> model, tools |-> <<"read_file", "sql_query">>] :
          model \in {<<"llama3", ":", "8b">>, <<"gemma3", ":", "12b">>} }

\* The calls that may be in flight at once.
MaxInFlight == 2

\* ollama.py:113-146: a call of chat builds its payload and posts it; the
\* coroutine then waits for the answer, and other calls run meanwhile. A
\* payload that cannot be built ends the call with the exception. A call
\* made while another is in flight is one of Overlapping, as is the other.
ChatPost(messages, model, tools) ==
    /\ Len(posted) < MaxInFlight
    /\ IF posted = <<>> THEN TRUE
       ELSE /\ [messages |-> messages, model |-> model, tools |-> tools] \in Overlapping
            /\ \A k \in 1 .. Len(posted) :
                  [messages |-> posted[k].messages, model |-> posted[k].model,
                   tools |-> posted[k].tools] \in Overlapping
    /\ LET built == BuildPayload(messages, model, tools) IN
       IF built.raised
       THEN /\ reply' = [op |-> "chat", messages |-> messages, model |-> model,
                         tools |-> tools, result |-> built]
            /\ UNCHANGED posted
       ELSE /\ reply' = NoReply
            /\ posted' = Append(posted, [messages |-> messages, model |-> model,
                                         tools |-> tools, payload |-> built.payload])
    /\ UNCHANGED <<file, lock, th, tail, logged, disk>>
    /\ UNCHANGED routerVars

Without(calls, k) == SubSeq(calls, 1, k - 1) \o SubSeq(calls, k + 1, Len(calls))

\* ollama.py:146-162: the backend answers posted call k, in whatever order,
\* and the call returns the message read from the answer.
ChatAnswer(k, data) ==
    /\ k \in 1 .. Len(posted)
    /\ reply' = [op |-> "chat", messages |-> posted[k].messages, model |-> posted[k].model,
                 tools |-> posted[k].tools, data |-> data,
                 result |-> ReadReply(posted[k], data)]
    /\ posted' = Without(posted, k)
    /\ UNCHANGED <<file, lock, th, tail, logged, disk>>
    /\ UNCHANGED routerVars

\* ollama.py:146-147: the post fails, or the answer's status is an error.
ChatFail(k) ==
    /\ k \in 1 .. Len(posted)
    /\ reply' = [op |-> "chat", messages |-> posted[k].messages, model |-> posted[k].model,
                 tools |-> posted[k].tools, result |-> AdapterRaised("HTTPError")]
    /\ posted' = Without(posted, k)
    /\ UNCHANGED <<file, lock, th, tail, logged, disk>>
    /\ UNCHANGED routerVars

----------------------------------------------------------------------------
(* Metrics: compute_metrics and its latency percentiles *)

\* An entry as _read_all returns it, with ts in whole seconds.
Timed(ts, request_id, event) == [ts |-> ts, request_id |-> request_id, event |-> event]

\* metrics.py:64-72: the start times by request id and the durations, folded
\* over the entries from position i on.
RECURSIVE Durations(_, _, _, _)
Durations(entries, i, starts, durations) ==
    IF i > Len(entries) THEN durations
    ELSE LET e == entries[i] IN
         IF e.event = "request.start"
         THEN Durations(entries, i + 1,
                        [r \in DOMAIN starts \cup {e.request_id} |->
                            IF r = e.request_id THEN e.ts ELSE starts[r]],
                        durations)
         ELSE IF e.event = "request.end" /\ e.request_id \in DOMAIN starts
         THEN Durations(entries, i + 1, starts,
                        Append(durations, e.ts - starts[e.request_id]))
         ELSE Durations(entries, i + 1, starts, durations)

Min(a, b) == IF a <= b THEN a ELSE b

\* int(n * p) for p given in hundredths.
Floor100(n, p) == (n * p) \div 100

\* metrics.py:62-84. Python's list index counts from 0; the durations are
\* whole seconds here, which round(_, 3) leaves as they are.
_latency_percentiles(entries) ==
    LET sorted == SortSeq(Durations(entries, 1, <<>>, <<>>), <)
        n      == Len(sorted)
    IN IF n = 0 THEN [p50 |-> 0, p95 |-> 0, p99 |-> 0, count |-> 0]
       ELSE [p50 |-> sorted[Floor100(n, 50) + 1],
             p95 |-> sorted[Min(Floor100(n, 95), n - 1) + 1],
             p99 |-> sorted[Min(Floor100(n, 99), n - 1) + 1],
             count |-> n]

\* metrics.py:17-34, the latency aggregate; since is Null or a time (seconds
\* from the origin). A datetime is never falsy, so every time filters.
compute_metrics(entries, since) ==
    LET kept == IF since = Null THEN entries
                ELSE SelectSeq(entries, LAMBDA e : e.ts >= since.n)
    IN [latency |-> _latency_percentiles(kept)]

\* test_metrics.py:50-57: ten requests, one started each minute, that last
\* 1, 2, ..., 10 seconds.
Samples == 10

TenPaired ==
    [k \in 1 .. 2 * Samples |->
        IF k % 2 = 1 THEN Timed(60 * ((k - 1) \div 2), (k + 1) \div 2, "request.start")
        ELSE Timed(60 * ((k - 2) \div 2) + k \div 2, k \div 2, "request.end")]

\* logger.py:21-25: an entry is appended to the log.
LogTimed(entry) ==
    /\ Len(logged) < MaxLog
    /\ logged' = Append(logged, entry)
    /\ reply' = NoReply
    /\ UNCHANGED <<file, lock, th, tail, disk, posted>>
    /\ UNCHANGED routerVars

\* The ten requests are served on an empty log.
LogTenPaired ==
    /\ logged = <<>>
    /\ logged' = TenPaired
    /\ reply' = NoReply
    /\ UNCHANGED <<file, lock, th, tail, disk, posted>>
    /\ UNCHANGED routerVars

\* metrics.py:17-34, on the entries of the log.
ComputeMetrics(since) ==
    /\ reply = NoReply
    /\ reply' = [op |-> "compute_metrics", entries |-> logged, since |-> since,
                 result |-> compute_metrics(logged, since)]
    /\ UNCHANGED <<file, lock, th, tail, logged, disk, posted>>
    /\ UNCHANGED routerVars

TimedEntries ==
    { Timed(ts, r, event) : ts \in {-1, 0, 2}, r \in {1, 2},
                            event \in {"request.start", "request.end"} }

Sinces == {Null, IntVal(0), IntVal(1)}

----------------------------------------------------------------------------
(* The manifest: load_manifest, the Manifest schema, the tool context *)

\* What load_manifest gives: a Manifest, or the exception it raises.
Loaded(m) == [ok |-> TRUE, manifest |-> m]

LoadFailed(error) == [ok |-> FALSE, error |-> error]

\* A section of a mapping, or the empty mapping its default is built from.
Section(v, key) ==
    IF v.kind # "obj" THEN Obj(EmptyDict)
    ELSE IF key \in DOMAIN v.fields THEN v.fields[key] ELSE Obj(EmptyDict)

\* The annotations of the schema's fields.
TStr == [t |-> "str"]

TInt == [t |-> "int"]

TBool == [t |-> "bool"]

TEnum(values) == [t |-> "enum", values |-> values]

TOptional(of) == [t |-> "optional", of |-> of]

TList(of) == [t |-> "list", of |-> of]

TDict(of) == [t |-> "dict", of |-> of]

TModel(fields) == [t |-> "model", fields |-> fields]

\* A field: its annotation and the input its default is built from; a field
\* without default is required.
Required == [kind |-> "required"]

Field(type, default) == [type |-> type, default |-> default]

\* manifest.py:16-18
AppInfo == TModel([name |-> Field(TStr, Required), version |-> Field(TStr, Str("0.0.1"))])

\* manifest.py:21-23
PolicyModes == {"local_only", "developer"}

\* manifest.py:26-28
RuntimeConfig ==
    TModel([base_url    |-> Field(TStr, Str("http://127.0.0.1:8080")),
            policy_mode |-> Field(TEnum(PolicyModes), Str("local_only"))])

\* manifest.py:34-36
NetworkPolicy ==
    TModel([outbound      |-> Field(TStr, Str("deny")),
            allow_domains |-> Field(TList(TStr), List(<<>>))])

\* manifest.py:39-40
DataSqlitePolicy == TModel([allow |-> Field(TList(TStr), List(<<>>))])

\* manifest.py:43-45
DataFilesystemPolicy ==
    TModel([allow_read  |-> Field(TList(TStr), List(<<>>)),
            allow_write |-> Field(TList(TStr), List(<<>>))])

\* manifest.py:48-50
DataVectorPolicy ==
    TModel([allow       |-> Field(TList(TStr), List(<<>>)),
            allow_write |-> Field(TList(TStr), List(<<>>))])

\* manifest.py:53-56
DataPolicy ==
    TModel([sqlite     |-> Field(DataSqlitePolicy, Obj(EmptyDict)),
            filesystem |-> Field(DataFilesystemPolicy, Obj(EmptyDict)),
            vector     |-> Field(DataVectorPolicy, Obj(EmptyDict))])

\* manifest.py:59-60
ToolsPolicy == TModel([allow |-> Field(TList(TStr), List(<<>>))])

\* manifest.py:63-66
Policy ==
    TModel([network |-> Field(NetworkPolicy, Obj(EmptyDict)),
            tools   |-> Field(ToolsPolicy, Obj(EmptyDict)),
            data    |-> Field(DataPolicy, Obj(EmptyDict))])

\* manifest.py:72-74
ModelEntry == TModel([id |-> Field(TStr, Required), context_window |-> Field(TInt, IntVal(8192))])

\* manifest.py:77-80
ModelsConfig ==
    TModel([backend |-> Field(TStr, Str("ollama")),
            default |-> Field(TStr, Str("")),
            map     |-> Field(TDict(ModelEntry), Obj(EmptyDict))])

\* manifest.py:86-90
ToolConfig ==
    TModel([type      |-> Field(TStr, Str("builtin")),
            read_only |-> Field(TBool, Bool(FALSE)),
            max_rows  |-> Field(TOptional(TInt), Null),
            max_bytes |-> Field(TOptional(TInt), Null)])

\* manifest.py:96-99
AuditConfig ==
    TModel([path                |-> Field(TStr, Str("audit.jsonl")),
            redact_prompt       |-> Field(TBool, Bool(FALSE)),
            redact_tool_outputs |-> Field(TBool, Bool(FALSE))])

\* manifest.py:105-107
EmbeddingConfig ==
    TModel([backend |-> Field(TStr, Str("ollama")),
            model   |-> Field(TStr, Str("nomic-embed-text"))])

\* manifest.py:110-112
VectorConfig ==
    TModel([backend       |-> Field(TStr, Str("chroma")),
            default_top_k |-> Field(TInt, IntVal(10))])

\* manifest.py:118-126
Manifest ==
    TModel([app       |-> Field(AppInfo, Required),
            runtime   |-> Field(RuntimeConfig, Obj(EmptyDict)),
            policy    |-> Field(Policy, Obj(EmptyDict)),
            models    |-> Field(ModelsConfig, Obj(EmptyDict)),
            tools     |-> Field(TDict(ToolConfig), Obj(EmptyDict)),
            audit     |-> Field(AuditConfig, Obj(EmptyDict)),
            embedding |-> Field(EmbeddingConfig, Obj(EmptyDict)),
            vector_db |-> Field(VectorConfig, Obj(EmptyDict))])

\* The strings of the model that are numerals, blanks around them allowed,
\* with the number int() reads from them.
Numerals == ("50" :> 50) @@ (" 7 " :> 7) @@ ("0" :> 0) @@ ("1" :> 1)

\* The strings pydantic reads as a boolean (compared in lower case).
TrueWords == {"1", "on", "t", "true", "y", "yes"}

FalseWords == {"0", "off", "f", "false", "n", "no"}

\* The strings of the model that hold an upper-case letter, with what
\* str.lower() makes of them.
LowerCased ==
    ("YES" :> "yes") @@ ("True" :> "true") @@ ("ON" :> "on") @@ ("FALSE" :> "false")
        @@ ("No" :> "no") @@ ("Maybe" :> "maybe")

Lower(chars) == IF chars \in DOMAIN LowerCased THEN LowerCased[chars] ELSE chars

Valid(value) == [ok |-> TRUE, value |-> value]

Invalid == [ok |-> FALSE, value |-> Null]

\* pydantic's validation of an input against an annotation, in its default
\* (lax) mode and with its default configuration: a str field takes a string
\* only; an int field takes an int, a bool (as 0 or 1) and a numeral string; a
\* bool field takes a bool, the ints 0 and 1 and the boolean words; an Enum
\* field takes one of its values; a model takes a mapping, validates its
\* fields, fills the missing ones with their defaults and ignores every other
\* key (extra = "ignore").
RECURSIVE Validate(_, _)
Validate(type, v) ==
    IF type.t = "str" THEN (IF v.kind = "str" THEN Valid(v) ELSE Invalid)
    ELSE IF type.t = "int"
    THEN IF v.kind = "int" THEN Valid(v)
         ELSE IF v.kind = "bool" THEN Valid(IntVal(IF v.b THEN 1 ELSE 0))
         ELSE IF v.kind = "str"
         THEN (IF v.chars \in DOMAIN Numerals THEN Valid(IntVal(Numerals[v.chars])) ELSE Invalid)
         ELSE Invalid
    ELSE IF type.t = "bool"
    THEN IF v.kind = "bool" THEN Valid(v)
         ELSE IF v.kind = "int"
         THEN (IF v.n \in {0, 1} THEN Valid(Bool(v.n = 1)) ELSE Invalid)
         ELSE IF v.kind = "str"
         THEN IF Lower(v.chars) \in TrueWords THEN Valid(Bool(TRUE))
              ELSE IF Lower(v.chars) \in FalseWords THEN Valid(Bool(FALSE))
              ELSE Invalid
         ELSE Invalid
    ELSE IF type.t = "enum"
    THEN IF v.kind = "str" THEN (IF v.chars \in type.values THEN Valid(v) ELSE Invalid)
         ELSE Invalid
    ELSE IF type.t = "optional"
    THEN (IF v.kind = "none" THEN Valid(Null) ELSE Validate(type.of, v))
    ELSE IF type.t = "list"
    THEN IF v.kind # "list" THEN Invalid
         ELSE LET rs == [i \in 1 .. Len(v.items) |-> Validate(type.of, v.items[i])]
              IN IF \A i \in 1 .. Len(rs) : rs[i].ok
                 THEN Valid(List([i \in 1 .. Len(rs) |-> rs[i].value]))
                 ELSE Invalid
    ELSE IF type.t = "dict"
    THEN IF v.kind # "obj" THEN Invalid
         ELSE LET rs == [k \in DOMAIN v.fields |-> Validate(type.of, v.fields[k])]
              IN IF \A k \in DOMAIN rs : rs[k].ok
                 THEN Valid(Obj([k \in DOMAIN rs |-> rs[k].value]))
                 ELSE Invalid
    ELSE IF v.kind # "obj" THEN Invalid
         ELSE LET rs == [f \in DOMAIN type.fields |->
                            IF f \in DOMAIN v.fields
                            THEN Validate(type.fields[f].type, v.fields[f])
                            ELSE IF type.fields[f].default = Required THEN Invalid
                            ELSE Validate(type.fields[f].type, type.fields[f].default)]
              IN IF \A f \in DOMAIN rs : rs[f].ok
                 THEN Valid(Obj([f \in DOMAIN rs |-> rs[f].value]))
                 ELSE Invalid

\* manifest_loader.py:24: Manifest(**data)
ValidateManifest(data) ==
    LET r == Validate(Manifest, data)
    IN IF r.ok THEN Loaded(r.value) ELSE LoadFailed("ValidationError")

\* The file at the manifest's path: none, a text that is not YAML, or the
\* value yaml.safe_load gives for its text.
NoFile == [kind |-> "nofile"]

NotYaml == [kind |-> "notyaml"]

\* manifest_loader.py:13-24
load_manifest(document) ==
    IF document = NoFile THEN LoadFailed("FileNotFoundError")
    ELSE IF document = NotYaml THEN LoadFailed("YAMLError")
    ELSE IF document.kind # "obj" THEN LoadFailed("ValueError")
    ELSE ValidateManifest(document)

\* The strings of a validated list[str].
Strings(v) == [i \in 1 .. Len(v.items) |-> v.items[i].chars]

\* tool_router.py:140-157: manifest_data_paths.
RouterContext(m) ==
    LET data  == m.fields["policy"].fields["data"].fields
        tools == m.fields["tools"].fields
    IN ToolContext(Strings(data["sqlite"].fields["allow"]),
                   Strings(data["filesystem"].fields["allow_read"]),
                   Strings(data["filesystem"].fields["allow_write"]),
                   IF "sql_query" \in DOMAIN tools THEN tools["sql_query"].fields["max_rows"]
                   ELSE IntVal(100),
                   IF "read_file" \in DOMAIN tools THEN tools["read_file"].fields["max_bytes"]
                   ELSE IntVal(65536))
       @@ [vector_allow       |-> Strings(data["vector"].fields["allow"]),
           vector_allow_write |-> Strings(data["vector"].fields["allow_write"]),
           vector_backend     |-> m.fields["vector_db"].fields["backend"],
           default_top_k      |-> m.fields["vector_db"].fields["default_top_k"]]

\* app.py: the manifest file is loaded at startup.
LoadManifestFile(document) ==
    /\ reply' = [op |-> "load_manifest", document |-> document,
                 result |-> load_manifest(document)]
    /\ UNCHANGED <<file, lock, th, tail, logged, disk, posted>>
    /\ UNCHANGED routerVars

\* tool_router.py:140-157: run builds the context of an allowed directive from
\* the manifest that was loaded.
BuildContext ==
    /\ reply.op = "load_manifest"
    /\ reply.result.ok
    /\ reply' = [op |-> "tool_context", manifest |-> reply.result.manifest,
                 ctx |-> RouterContext(reply.result.manifest)]
    /\ UNCHANGED <<file, lock, th, tail, logged, disk, posted>>
    /\ UNCHANGED routerVars

\* The sections a manifest file is composed of; EmptyDict leaves a section out.
AppSections ==
    { EmptyDict,
      [app |-> Obj([name |-> Str("test-app")])],
      [app |-> Obj([name |-> Str("test-app"), colour |-> Str("blue")])],
      [app |-> Obj([name |-> Str("test-app"), version |-> IntVal(5)])],
      [app |-> Obj([version |-> Str("0.1.0")])] }

RuntimeSections ==
    { EmptyDict,
      [runtime |-> Obj([policy_mode |-> Str("developer")])],
      [runtime |-> Obj([policy_mode |-> Str("strict")])],
      [runtime |-> Obj([base_url |-> IntVal(5)])] }

PolicySections ==
    { EmptyDict,
      [policy |-> Obj([tools |-> Obj([allow |-> List(<<Str("sql_query"), Str("read_file")>>)])])],
      [policy |-> Obj([tools |-> Obj([allow |-> List(<<Str("sql_query")>>),
                                      deny  |-> List(<<Str("read_file")>>)])])],
      [policy |-> Obj([data |-> Obj([sqlite     |-> Obj([allow |-> List(<<Str("/e/b")>>)]),
                                     filesystem |-> Obj([allow_read  |-> List(<<Str("/d")>>),
                                                         allow_write |-> List(<<Str("/w")>>)])])])],
      [policy |-> Obj([data |-> Str("x")])],
      [policy |-> Obj([network |-> Obj([allow_domains |-> List(<<IntVal(1)>>)])])],
      [policy |-> Str("x")] }

ToolSections ==
    { EmptyDict,
      [tools |-> Obj([sql_query |-> Obj([type |-> Str("builtin")])])],
      [tools |-> Obj([sql_query |-> Obj([max_rows |-> IntVal(50)]),
                      read_file |-> Obj([max_bytes |-> IntVal(1000)])])],
      [tools |-> Obj([read_file |-> Obj(EmptyDict)])],
      [tools |-> Obj([sql_query |-> Obj([max_rows |-> Str("many")])])],
      [tools |-> Obj([sql_query |-> Obj([max_rows |-> Str("50")]),
                      read_file |-> Obj([max_bytes |-> Str(" 7 ")])])],
      [tools |-> Obj([sql_query |-> Obj([type |-> IntVal(5)])])],
      [tools |-> Obj([sql_query |-> Obj([read_only |-> Str("maybe")])])],
      [tools |-> Obj([sql_query |-> Obj([read_only |-> Str("yes"), max_rows |-> Null])])],
      [tools |-> Obj([sql_query |-> Obj([read_only |-> Str("YES")]),
                      read_file |-> Obj([read_only |-> Str("No")])])],
      [tools |-> Obj([sql_query |-> Obj([read_only |-> Str("Maybe")])])],
      [tools |-> Obj([sql_query |-> Null])] }

OtherSections ==
    { EmptyDict,
      [plugins |-> List(<<Str("x")>>)],
      [audit |-> Str("x")],
      [models |-> Obj([map |-> Obj([m |-> Obj([context_window |-> IntVal(4096)])])])],
      [vector_db |-> Obj([backend |-> Str("lance"), default_top_k |-> Str("50")])] }

NamedApp == [app |-> Obj([name |-> Str("test-app")])]

\* The files explored: the sections combined two or three at a time, and the
\* files that are no mapping.
Documents ==
    { Obj(a @@ x) : a \in AppSections, x \in OtherSections }
    \cup { Obj(NamedApp @@ r @@ p) : r \in RuntimeSections, p \in PolicySections }
    \cup { Obj(NamedApp @@ p @@ t @@ x) :
               p \in PolicySections, t \in ToolSections,
               x \in {o \in OtherSections : DOMAIN o \subseteq {"plugins"}} }
    \cup { NoFile, NotYaml, Str("just a string"), Null, List(<<Str("app")>>) }

----------------------------------------------------------------------------
(* Specifications *)

InitRouter ==
    /\ run = [r \in Requests |-> IdleRun]
    /\ log = <<>>
    /\ origin = <<>>
    /\ invoked = {}
    /\ chat_calls = [r \in Requests |-> <<>>]
    /\ mcp = IdleMcp

InitFile ==
    /\ file = <<>>
    /\ lock = NoThread
    /\ th = [t \in Threads |-> IdleThread]
    /\ tail = IdleTail

InitCalls ==
    /\ logged = <<>>
    /\ reply = NoReply
    /\ disk = InitialDisk
    /\ posted = <<>>

\* The router alone, on an idle logger and tail.
Init ==
    /\ manifest \in Manifests
    /\ limit \in Limits(MAX_ITERATIONS)
    /\ client_messages \in limit.messages
    /\ InitRouter
    /\ InitFile
    /\ InitCalls

Next ==
    \/ \E r \in Requests, prompt_tools \in BOOLEAN : StartRequest(r, client_messages, prompt_tools)
    \/ \E r \in Requests, msg_data \in limit.replies : ChatReply(r, msg_data)
    \/ \E r \in Requests : ChatRaise(r)
    \/ \E r \in Requests, outcome \in ToolOutcomes : ToolReturn(r, outcome)
    \/ \E r \in Requests : Cancel(r)
    \/ \E call \in McpCalls : McpCall(call.tool_name, call.args)
    \/ \E outcome \in ToolOutcomes : McpReturn(outcome)

Spec == Init /\ [][Next]_vars

\* Replies whose directives name a tool the registry does not hold, leave the
\* tool's required argument out, or carry arguments that are not an object.
OneCall(name, args) == [content |-> "", tool_calls |-> <<RawCall(name, args, None)>>]

FaultReplies ==
    { PlainReply,
      OneCall("read_file", [path |-> Str("/tmp/x.txt")]),
      OneCall("read_file", EmptyDict),
      OneCall("web_search", [q |-> Str("x")]),
      OneCall("write_file", [path |-> Str("/nowhere/x"), content |-> Str("c")]),
      OneCall("write_file", [path |-> Str("/w/x.txt"), content |-> IntVal(5)]),
      OneCall("vector_search", [collection |-> IntVal(5), query |-> Str("q")]),
      OneCall("read_file", [path |-> Str(NulPath)]),
      OneCall("read_file", [path |-> IntVal(5)]),
      OneCall("read_file", [path |-> Null]),
      OneCall("read_file", List(<<IntVal(1)>>)),
      OneCall("read_file", IntVal(5)),
      OneCall("read_file", Str("oops")),
      OneCall("read_file", Str("5")),
      OneCall("read_file", Str("null")),
      OneCall("read_file", Str("{\"path\": \"/tmp/x.txt\"}")),
      OneCall("read_file", List(<<List(<<IntVal(1)>>), Str("it's")>>)),
      OneCall("read_file", List(<<Str("a")>>)),
      [content |-> "", tool_calls |->
          << RawCall("read_file", Null, None),
             RawCall("sql_query", [table |-> Str("t1")], "b7") >>] }

FaultManifests ==
    { [policy_mode |-> "developer",  allow |-> {}],
      [policy_mode |-> "local_only", allow |-> {"read_file", "web_search"}] }

\* One request at a time, with such replies.
FaultInit ==
    /\ manifest \in FaultManifests
    /\ limit = [requests |-> 1, calls |-> MaxCalls, mcp |-> 0]
    /\ client_messages = UserOnly
    /\ InitRouter
    /\ InitFile
    /\ InitCalls

FaultNext ==
    \/ \E r \in Requests, prompt_tools \in BOOLEAN : StartRequest(r, client_messages, prompt_tools)
    \/ \E r \in Requests, msg_data \in FaultReplies : ChatReply(r, msg_data)
    \/ \E r \in Requests : ChatRaise(r)
    \/ \E r \in Requests, outcome \in ToolOutcomes : ToolReturn(r, outcome)

FaultSpec == FaultInit /\ [][FaultNext]_vars

\* No request is served: the router's variables stay as they start.
InitQuiet ==
    /\ manifest = [policy_mode |-> "local_only", allow |-> {"read_file"}]
    /\ limit = [requests |-> 0, calls |-> 0, mcp |-> 0]
    /\ client_messages = UserOnly
    /\ InitRouter
    /\ InitFile
    /\ InitCalls

\* The policy engine from its construction: no manifest, then manifests
\* loaded and checks made.
PolicyInit ==
    /\ manifest = NoManifest
    /\ limit = [requests |-> 0, calls |-> 0, mcp |-> 0]
    /\ client_messages = UserOnly
    /\ InitRouter
    /\ InitFile
    /\ InitCalls

PolicyNext ==
    \/ \E m \in DataManifests : LoadManifest(m)
    \/ \E tool_name \in ToolNames : CheckTool(tool_name)
    \/ \E path \in DataPaths, access \in Accesses : CheckDataAccess(path, access)

PolicySpec == PolicyInit /\ [][PolicyNext]_vars

\* The adapter called with conversations and backend replies.
AdapterNext ==
    \/ \E messages \in Conversations, model \in Models, tools \in ToolDefs :
          ChatPost(messages, model, tools)
    \/ \E k \in 1 .. MaxInFlight, data \in Replies : ChatAnswer(k, data)
    \/ \E k \in 1 .. MaxInFlight : ChatFail(k)
    \/ \E msg \in AssistantMessages : RoundTrip(msg)

AdapterSpec == InitQuiet /\ [][AdapterNext]_vars

\* Requests logged, and the metrics computed from the log.
MetricsNext ==
    \/ \E entry \in TimedEntries : LogTimed(entry)
    \/ LogTenPaired
    \/ \E since \in Sinces : ComputeMetrics(since)

MetricsSpec == InitQuiet /\ [][MetricsNext]_vars

\* Manifest files loaded, and the tool context built from a loaded manifest.
ManifestNext ==
    \/ \E document \in Documents : LoadManifestFile(document)
    \/ BuildContext

ManifestSpec == InitQuiet /\ [][ManifestNext]_vars

\* The built-in tools called on the filesystem.
ToolNext ==
    \/ \E ctx \in Contexts, args \in ReadFileArgs : ReadFile(ctx, args)
    \/ \E ctx \in Contexts, args \in SqlQueryArgs : SqlQuery(ctx, args)
    \/ \E ctx \in Contexts, args \in WriteFileArgs : WriteFile(ctx, args)

ToolSpec == InitQuiet /\ [][ToolNext]_vars

\* The arguments the readers are called with.
RequestIds == {"r1", "r2", "r3"}

Limits0 == {0, 1, 2, DefaultLimit}

Filter(event, request_id, since, until) ==
    [event |-> event, request_id |-> request_id, since |-> since, until |-> until]

Filters ==
    { Filter(None, None, None, None),
      Filter("tool.call", None, None, None),
      Filter(None, "r1", None, None),
      Filter(None, None, "T2", None),
      Filter(None, None, None, "T2"),
      Filter("tool.call", "r1", "T2", "T2") }

\* The entry the writer dies in.
CrashEntries == {Stamped("T3", AuditEntry("r2", "tool.call", [tool |-> "read_file"]))}

Pages == {NoPage, Page(1, 1), Page(2, 0)}

\* A log that is empty or long already; then appends, a crash of the writer,
\* and reads.
ReadInit ==
    /\ manifest = [policy_mode |-> "local_only", allow |-> {"read_file"}]
    /\ limit = [requests |-> 0, calls |-> 0, mcp |-> 0]
    /\ client_messages = UserOnly
    /\ InitRouter
    /\ lock = NoThread
    /\ th = [t \in Threads |-> IdleThread]
    /\ tail = IdleTail
    /\ logged \in {<<>>, LongLog}
    /\ file = SerializeAll(logged, 1)
    /\ reply = NoReply
    /\ disk = InitialDisk
    /\ posted = <<>>

ReadNext ==
    \/ \E entry \in LogEntries : LogEntry(entry)
    \/ \E entry \in CrashEntries : CrashMidWrite(entry)
    \/ \E request_id \in RequestIds : QueryByRequest(request_id)
    \/ \E lim \in Limits0 : QueryByEvent("tool.call", lim)
    \/ \E n \in Limits0 : AuditTail(n)
    \/ \E f \in Filters, page \in Pages : QueryFiltered(f, page)

ReadSpec == ReadInit /\ [][ReadNext]_vars

\* Threads calling JsonlAuditLogger.log concurrently.
LogNext ==
    \/ \E t \in Threads : LogCall(t)
    \/ \E t \in Threads : Acquire(t)
    \/ \E t \in Threads : WriteBuffered(t)
    \/ \E t \in Threads : OsWrite(t)
    \/ \E t \in Threads : Release(t)

LogSpec == InitQuiet /\ [][LogNext]_vars

\* The logger and one stream_tail generator on the event loop.
TailNext ==
    \/ \E t \in Threads : LogWhole(t)
    \/ TailStart
    \/ TailPoll
    \/ TailReadLine

TailSpec == InitQuiet /\ [][TailNext]_vars

----------------------------------------------------------------------------
(* Reading the audit log *)

LogIdx == 1 .. Len(log)

\* The positions of request r's entries, and those written for directive
\* (it, i) of request r.
EntriesOf(r) == {k \in LogIdx : log[k].request_id = r}

EntriesAt(r, it, i) ==
    {k \in EntriesOf(r) : origin[k].iter = it /\ origin[k].idx = i}

EventsAt(r, it, i, event) == {k \in EntriesAt(r, it, i) : log[k].event = event}

\* The directives the adapter has handed to request r: (iteration, position).
Sites(r) ==
    {s \in (1 .. Len(chat_calls[r])) \X (1 .. 3) :
        s[2] <= Len(chat_calls[r][s[1]].tool_calls)}

Directive(r, s) == chat_calls[r][s[1]].tool_calls[s[2]]

\* run has finished with directive s (it is not the one whose tool is awaited,
\* nor a later one of that reply).
Processed(r, s) ==
    \/ s[1] < run[r].iter
    \/ s[1] = run[r].iter /\ (run[r].di = 0 \/ s[2] < run[r].di)

Denied(r, s) == check_tool(manifest, Directive(r, s).function.name).verdict = "deny"

\* The subsequence of log at the positions in K, in file order.
RECURSIVE Pick(_, _)
Pick(K, from) ==
    IF from > Len(log) THEN <<>>
    ELSE IF from \in K THEN <<log[from]>> \o Pick(K, from + 1)
         ELSE Pick(K, from + 1)

----------------------------------------------------------------------------
(* C1 *)

\* C1: in local_only mode every directive whose tool is not in
\* policy.tools.allow gets a policy.block entry naming the tool, no tool.call
\* and no tool.result entry, and its tool's run is never awaited; no tool.call
\* or tool.result entry of the log names a tool outside the allow list.
C1_DeniedToolBlocked ==
    manifest.policy_mode = "local_only" =>
        /\ \A r \in Requests : \A s \in Sites(r) :
              LET name == Directive(r, s).function.name IN
              (name \notin manifest.allow /\ Processed(r, s)) =>
                  /\ \E k \in EventsAt(r, s[1], s[2], "policy.block") :
                        log[k].detail.tool = name
                  /\ EventsAt(r, s[1], s[2], "tool.call") = {}
                  /\ EventsAt(r, s[1], s[2], "tool.result") = {}
                  /\ <<r, s[1], s[2]>> \notin invoked
        /\ \A k \in LogIdx :
              log[k].event \in {"tool.call", "tool.result"} =>
                  log[k].detail.tool \in manifest.allow

\* A denied sql_query was processed next to an allowed read_file of the same reply.
C1_Witness ==
    /\ manifest.policy_mode = "local_only"
    /\ \E r \in Requests : \E s \in Sites(r) : \E t \in Sites(r) :
          /\ Directive(r, s).function.name \notin manifest.allow
          /\ Processed(r, s)
          /\ EventsAt(r, s[1], s[2], "policy.block") # {}
          /\ t[1] = s[1]
          /\ EventsAt(r, t[1], t[2], "tool.result") # {}

----------------------------------------------------------------------------
(* C2 *)

CallsFor(r, id) ==
    {k \in EntriesOf(r) : log[k].event = "tool.call" /\ origin[k].id = id}

ResultsFor(r, id) ==
    {k \in EntriesOf(r) : log[k].event = "tool.result" /\ log[k].detail.call_id = id}

BlocksFor(r, id) ==
    {k \in EntriesOf(r) : log[k].event = "policy.block" /\ origin[k].id = id}

\* C2: for every directive run has processed, the request's entries hold
\* either a tool.call and exactly one tool.result with the directive's call_id,
\* or a policy.block and neither a tool.call nor a tool.result for that
\* call_id; every tool.result for (request, call_id) comes after a tool.call
\* for the same (request, call_id).
C2_CallIdPairing ==
    \A r \in Requests :
        /\ \A s \in Sites(r) : Processed(r, s) =>
              LET id == Directive(r, s).id IN
              \/ CallsFor(r, id) # {} /\ Cardinality(ResultsFor(r, id)) = 1
                                      /\ BlocksFor(r, id) = {}
              \/ BlocksFor(r, id) # {} /\ CallsFor(r, id) = {}
                                       /\ ResultsFor(r, id) = {}
        /\ \A k \in EntriesOf(r) : log[k].event = "tool.result" =>
              \E j \in CallsFor(r, log[k].detail.call_id) : j < k

----------------------------------------------------------------------------
(* C3 *)

\* C3: request.start precedes every other entry of its request, and when run
\* has returned normally request.end is the request's last entry.
C3_StartFirstEndLast ==
    \A r \in Requests :
        /\ \A k \in EntriesOf(r) : log[k].event # "request.start" =>
              \E j \in EntriesOf(r) : j < k /\ log[j].event = "request.start"
        /\ run[r].pc = "done" =>
              \E k \in EntriesOf(r) :
                  /\ log[k].event = "request.end"
                  /\ \A j \in EntriesOf(r) : j <= k

\* A request returned after a tool call, with an entry of another request
\* lying between its tool.call and its request.end.
C3_Witness ==
    \E r \in Requests : \E q \in Requests \ {r} :
        /\ run[r].pc = "done"
        /\ \E a \in EntriesOf(r) : \E b \in EntriesOf(q) : \E c \in EntriesOf(r) :
              a < b /\ b < c /\ log[a].event = "tool.call"
                    /\ log[c].event = "request.end"

----------------------------------------------------------------------------
(* C4 *)

EndsOf(r) == {k \in EntriesOf(r) : log[k].event = "request.end"}

\* C4: whatever the requests did (returned, failed, cancelled, one after the
\* other or together), each request id of the log (those of the calls made
\* over MCP included) has at most one request.end entry, and it lies after
\* the request's request.start.
C4_AtMostOneEnd ==
    \A r \in Requests \cup {log[k].request_id : k \in LogIdx} :
        /\ Cardinality(EndsOf(r)) <= 1
        /\ \A k \in EndsOf(r) :
              \E j \in EntriesOf(r) : j < k /\ log[j].event = "request.start"

\* One request returned with its single request.end while another, started
\* before that entry was written, was cancelled or failed and has none.
C4_Witness ==
    \E r \in Requests : \E q \in Requests \ {r} :
        /\ run[r].pc = "done" /\ Cardinality(EndsOf(r)) = 1
        /\ run[q].pc \in {"cancelled", "failed"} /\ EndsOf(q) = {}
        /\ \E b \in EntriesOf(q) : \A k \in EndsOf(r) : b < k

----------------------------------------------------------------------------
(* C5 *)

AllCarryDirectives(r) ==
    \A n \in 1 .. Len(chat_calls[r]) : Len(chat_calls[r][n].tool_calls) > 0

\* A call of run that is over, neither because the adapter raised nor because
\* the client went away.
RunOver(r) == run[r].pc \notin {"idle", "await_chat", "await_tool", "failed", "cancelled"}

\* C5: for any sequence of replies run calls the adapter at most 5 times per
\* request; when every reply carried directives and the call of run is over,
\* it called the adapter exactly 5 times, wrote request.end, and returned the
\* fifth reply with its tool directives as the response message.
C5_IterationCap ==
    \A r \in Requests :
        /\ run[r].iter <= 5
        /\ Len(chat_calls[r]) <= 5
        /\ (RunOver(r) /\ AllCarryDirectives(r)) =>
              /\ run[r].iter = 5
              /\ Len(chat_calls[r]) = 5
              /\ EndsOf(r) # {}
              /\ run[r].pc = "done"
              /\ run[r].response.message = chat_calls[r][5]
              /\ Len(run[r].response.message.tool_calls) > 0

----------------------------------------------------------------------------
(* C6 *)

\* C6: when the adapter raises on some iteration, the request's request.end
\* entry is still written, with detail.tools_used listing the tools that ran
\* before the failure.
C6_EndAfterAdapterFailure ==
    \A r \in Requests :
        run[r].pc = "failed" =>
            \E k \in EndsOf(r) : log[k].detail.tools_used = run[r].tools_used

----------------------------------------------------------------------------
(* C7 *)

RECURSIVE ToolsIn(_)
ToolsIn(entries) ==
    IF entries = <<>> THEN <<>>
    ELSE <<Head(entries).detail.tool>> \o ToolsIn(Tail(entries))

\* The distinct non-empty "table" arguments of the sql_query entries, in
\* order of first occurrence.
RECURSIVE TablesIn(_, _)
TablesIn(entries, seen) ==
    IF entries = <<>> THEN seen
    ELSE LET e == Head(entries)
             table == DictGet(e.detail.arguments, "table")
         IN IF e.detail.tool = "sql_query" /\ Truthy(table)
                /\ \A n \in 1 .. Len(seen) : seen[n] # table
            THEN TablesIn(Tail(entries), Append(seen, table))
            ELSE TablesIn(Tail(entries), seen)

ToolCallsOf(r) == Pick({k \in EntriesOf(r) : log[k].event = "tool.call"}, 1)

\* C7: when run returns, trace.tools_used is the sequence of detail.tool of the
\* request's tool.call entries, in log order and with duplicates, and
\* trace.tables_queried the tables of those entries; a denied directive has a
\* policy.block entry and no tool.call entry, so it adds nothing to either.
C7_TraceMatchesToolCalls ==
    \A r \in Requests :
        run[r].pc = "done" =>
            /\ run[r].response.tools_used = ToolsIn(ToolCallsOf(r))
            /\ run[r].response.tables_queried = TablesIn(ToolCallsOf(r), <<>>)
            /\ \A s \in Sites(r) : Denied(r, s) =>
                  /\ EventsAt(r, s[1], s[2], "policy.block") # {}
                  /\ EventsAt(r, s[1], s[2], "tool.call") = {}
            /\ Len(run[r].response.tools_used)
                  = Cardinality({s \in Sites(r) : ~Denied(r, s)})

\* A request returned after a denied sql_query (with a table argument) and an
\* allowed read_file that ran twice.
C7_Witness ==
    \E r \in Requests :
        /\ run[r].pc = "done"
        /\ \E s \in Sites(r) : Denied(r, s) /\ Directive(r, s).function.name = "sql_query"
        /\ run[r].response.tables_queried = <<>>
        /\ Len(run[r].response.tools_used) >= 2
        /\ run[r].response.tools_used[1] = run[r].response.tools_used[2]

----------------------------------------------------------------------------
(* C8 *)

\* Entries written for directives (not request.start / request.end).
DirectiveEntries(r) == {k \in EntriesOf(r) : origin[k].iter > 0}

Before(a, b) == a.iter < b.iter \/ (a.iter = b.iter /\ a.idx < b.idx)

SameSite(a, b) == a.iter = b.iter /\ a.idx = b.idx

\* The positions in K, ascending.
RECURSIVE IndexSeq(_, _)
IndexSeq(K, from) ==
    IF from > Len(log) THEN <<>>
    ELSE IF from \in K THEN <<from>> \o IndexSeq(K, from + 1)
         ELSE IndexSeq(K, from + 1)

\* C8: a request's policy.block / tool.call / tool.result entries lie in the
\* log in the order of the replies and, within a reply, of its directives;
\* each names the tool of its directive; an allowed directive's tool.call is
\* followed by its tool.result before any entry of a later directive (of two
\* neighbouring directive entries of a request the second is never of an
\* earlier directive, two of one directive are its tool.call and tool.result,
\* and a tool.call is never followed directly by a later directive's entry).
C8_DirectiveOrder ==
    \A r \in Requests :
        /\ \A k \in DirectiveEntries(r) :
              /\ <<origin[k].iter, origin[k].idx>> \in Sites(r)
              /\ log[k].detail.tool
                    = Directive(r, <<origin[k].iter, origin[k].idx>>).function.name
        /\ LET K == IndexSeq(DirectiveEntries(r), 1) IN
           \A n \in 1 .. Len(K) - 1 :
              LET j == K[n]
                  k == K[n + 1]
              IN /\ ~Before(origin[k], origin[j])
                 /\ SameSite(origin[j], origin[k]) =>
                       log[j].event = "tool.call" /\ log[k].event = "tool.result"
                 /\ Before(origin[j], origin[k]) => log[j].event # "tool.call"

\* A request whose second reply carried two directives, the first denied and
\* the second run to its tool.result, after a first reply whose tool ran.
C8_Witness ==
    \E r \in Requests :
        /\ EventsAt(r, 1, 1, "tool.result") # {}
        /\ EventsAt(r, 2, 1, "policy.block") # {}
        /\ EventsAt(r, 2, 2, "tool.result") # {}

----------------------------------------------------------------------------
(* The audit file *)

\* The part of the file that is whole: its newline-terminated lines, without
\* the newline.
TerminatedLines ==
    LET lines == FileLines(file, 0)
        whole == SelectSeq(lines, LAMBDA l : l[Len(l)] = "\n")
    IN [i \in 1 .. Len(whole) |-> Strip(whole[i])]

\* The bytes after the last newline.
PartialLine ==
    LET lines == FileLines(file, 0) IN
    IF lines # <<>> /\ lines[Len(lines)][Len(lines[Len(lines)])] # "\n"
    THEN lines[Len(lines)] ELSE <<>>

\* The entries the file's terminated lines hold.
TerminatedEntries ==
    LET whole == TerminatedLines
    IN [i \in 1 .. Len(whole) |-> LET line == whole[i] IN ParseLine(line)]

\* The entries of thread t's request among entries.
EntriesOfThread(entries, t) ==
    SelectSeq(entries, LAMBDA e : e.request_id = ThreadRequestId(t))

\* The entries of thread t are its first calls' entries, in the order of the
\* calls: those of the calls that returned, and at most the one being written.
InCallOrder(mine, t) ==
    /\ Len(mine) >= th[t].n
    /\ Len(mine) <= th[t].n + 1
    /\ \A n \in 1 .. Len(mine) : mine[n] = EntryOf(t, n)

\* C9: with threads calling JsonlAuditLogger.log concurrently, the audit file
\* is a sequence of whole entry lines, no entry's bytes interleaved with
\* another's (bytes after the last newline are the written part of the line
\* of the one call that holds the lock); every entry whose log call has
\* returned is in the file, and in what a subsequent read (_read_all on the
\* file as it is) returns; and each request's entries are there in the order
\* the request logged them. A read that meets the unfinished line of a call
\* in progress raises; that is the subject of C11.
C9_AtomicAppends ==
    /\ LET whole == TerminatedLines
       IN \A i \in 1 .. Len(whole) : WellFormed(whole[i])
    /\ LET partial == PartialLine
       IN partial # <<>> =>
              \E t \in Threads :
                  /\ lock = t
                  /\ th[t].pc = "flush"
                  /\ partial \o th[t].buf = th[t].line
    /\ LET entries == TerminatedEntries
       IN \A t \in Threads : InCallOrder(EntriesOfThread(entries, t), t)
    /\ LET read == ReadAll(file)
       IN /\ PartialLine = <<>> => ~read.raised
          /\ ~read.raised =>
                \A t \in Threads : InCallOrder(EntriesOfThread(read.entries, t), t)

\* Both requests' entries alternate in the file, and a call holding the lock
\* has written part of its line while the other thread waits for the lock.
C9_Witness ==
    /\ LET entries == TerminatedEntries
       IN /\ Len(entries) >= 3
          /\ \E i \in 1 .. Len(entries) - 2 :
                /\ entries[i].request_id = entries[i + 2].request_id
                /\ entries[i].request_id # entries[i + 1].request_id
    /\ PartialLine # <<>>
    /\ \E t \in Threads : th[t].pc = "lock"

\* The entries appended since the generator started.
AppendedSinceStart ==
    LET entries == ReadAll(file).entries IN SubSeq(entries, tail.k + 1, Len(entries))

\* C10: a stream_tail started when the log holds k entries never raises,
\* yields none of those k, and yields the entries appended afterwards each
\* once and in file order, whatever the interleaving of appends with its
\* polls: what it has yielded is a prefix of the entries appended since it
\* started, and all of them whenever it has read up to the end of the file.
C10_TailYieldsAppended ==
    tail.pc # "init" =>
        LET appended == AppendedSinceStart IN
        /\ tail.pc # "raised"
        /\ Len(tail.yielded) <= Len(appended)
        /\ tail.yielded = SubSeq(appended, 1, Len(tail.yielded))
        /\ (tail.pc = "poll" /\ tail.pos = Len(file) => tail.yielded = appended)

\* Started on a file that held entries, the generator has yielded entries
\* from two polls and the file has grown again while it reads.
C10_Witness ==
    /\ tail.k >= 1
    /\ tail.pc = "reading"
    /\ tail.pos > 0
    /\ Len(tail.yielded) >= 2
    /\ tail.cursor > tail.pos
    /\ Len(file) > tail.size
    /\ \E i \in 1 .. Len(tail.yielded) :
          tail.yielded[i].request_id # tail.yielded[1].request_id

----------------------------------------------------------------------------
(* The audit readers' results *)

ReaderOps == {"query_by_request", "query_by_event", "tail", "query_filtered"}

\* C11: a reader called on a file whose last line is incomplete (the writer
\* died mid-write) raises no error and returns only entries that were
\* logged whole.
C11_TrailingLineSkipped ==
    (reply.op \in ReaderOps /\ ~EndsWhole(file)) =>
        /\ ~reply.result.raised
        /\ \A i \in 1 .. Len(reply.result.entries) :
              \E j \in 1 .. Len(logged) : reply.result.entries[i] = logged[j]

\* C12: after any sequence of appends, query_by_request(id) returns exactly
\* the appended entries whose request_id is id, each once and in append
\* order, and the empty list for an id never appended or an empty log.
C12_ByRequest ==
    (reply.op = "query_by_request" /\ OnlyAppends(file)) =>
        /\ ~reply.result.raised
        /\ reply.result.entries =
              SelectSeq(logged, LAMBDA e : e.request_id = reply.args.request_id)

\* The log holds two entries of the request asked for with another
\* request's entry between them, and the call returned the two.
C12_Witness ==
    /\ reply.op = "query_by_request"
    /\ Len(reply.result.entries) = 2
    /\ Len(logged) = 3
    /\ logged[2].request_id # reply.args.request_id
    /\ logged[1] # logged[3]

\* The last min(n, Len(seq)) elements of seq.
LastN(seq, n) ==
    LET take == IF n < Len(seq) THEN n ELSE Len(seq)
    IN SubSeq(seq, Len(seq) - take + 1, Len(seq))

\* C13: for limit >= 0 and n >= 0, query_by_event(kind, limit) returns the
\* trailing min(limit, m) of the m entries of that kind in file order, and
\* tail(n) the trailing min(n, total) entries of the log.
C13_TrailingLimit ==
    /\ (reply.op = "query_by_event" /\ OnlyAppends(file)) =>
          /\ ~reply.result.raised
          /\ reply.result.entries =
                LastN(SelectSeq(logged, LAMBDA e : e.event = reply.args.event),
                      reply.args.limit)
    /\ (reply.op = "tail" /\ OnlyAppends(file)) =>
          /\ ~reply.result.raised
          /\ reply.result.entries = LastN(logged, reply.args.n)

Count(seq, x) == Len(SelectSeq(seq, LAMBDA y : y = x))

\* C14: query_filtered with filters and no pagination arguments returns
\* exactly the entries matching all the filters, newest first, and total is
\* the number of matching entries; with limit and offset given it returns the
\* slice [offset, offset + limit) of that newest-first list.
C14_FilteredQuery ==
    (reply.op = "query_filtered" /\ OnlyAppends(file)) =>
        LET matching == SelectSeq(logged, LAMBDA e : Matches(e, reply.args.filters))
            page     == reply.args.page
            got      == reply.result.entries
        IN /\ ~reply.result.raised
           /\ reply.result.total = Len(matching)
           /\ IF page.given
              THEN got = Slice(NewestFirst(matching, Len(Clock)),
                               page.offset, page.offset + page.limit)
              ELSE /\ Len(got) = Len(matching)
                   /\ \A i \in 1 .. Len(got) : Count(got, got[i]) = Count(matching, got[i])
                   /\ \A i \in 1 .. Len(got) - 1 :
                         TsOrder(got[i].ts) >= TsOrder(got[i + 1].ts)

----------------------------------------------------------------------------
(* The policy engine's decisions *)

\* C15: check_tool denies with rule no_manifest when no manifest is loaded;
\* otherwise in developer mode it allows every tool with rule developer_mode;
\* otherwise it allows exactly the tools in policy.tools.allow.
C15_ToolCheck ==
    reply.op = "check_tool" =>
        IF manifest = NoManifest
        THEN reply.result = Decision("deny", "no_manifest")
        ELSE IF manifest.policy_mode = "developer"
             THEN reply.result = Decision("allow", "developer_mode")
             ELSE reply.result.verdict =
                      (IF reply.args.tool_name \in manifest.allow THEN "allow" ELSE "deny")

\* The check was made before any manifest was loaded and came back deny.
C15_Witness ==
    /\ reply.op = "check_tool"
    /\ manifest = NoManifest
    /\ reply.result.verdict = "deny"

\* C16: in local_only mode check_data_access allows read iff the path is
\* verbatim in sqlite.allow or matches a glob of filesystem.allow_read, write
\* iff it matches a glob of filesystem.allow_write, vector_read and
\* vector_write iff the name matches a glob of vector.allow and
\* vector.allow_write, and denies every other access; a glob has to match the
\* whole string.
C16_DataAccess ==
    (/\ reply.op = "check_data_access"
     /\ manifest # NoManifest
     /\ manifest.policy_mode = "local_only") =>
        LET path   == reply.args.path
            access == reply.args.access
            allowed ==
                \/ access = "read" /\ (path \in manifest.sqlite_allow
                                        \/ AnyMatch(path, manifest.fs_allow_read))
                \/ access = "write" /\ AnyMatch(path, manifest.fs_allow_write)
                \/ access = "vector_read" /\ AnyMatch(path, manifest.vector_allow)
                \/ access = "vector_write" /\ AnyMatch(path, manifest.vector_allow_write)
        IN reply.result.verdict = (IF allowed THEN "allow" ELSE "deny")

\* A write to "/w/ab" was denied under the glob "/w/?", which matches the
\* path's first four characters but not the whole path.
C16_Witness ==
    /\ reply.op = "check_data_access"
    /\ manifest # NoManifest
    /\ manifest.policy_mode = "local_only"
    /\ reply.args.access = "write"
    /\ reply.args.path = <<"/", "w", "/", "a", "b">>
    /\ <<"/", "w", "/", "?">> \in manifest.fs_allow_write
    /\ reply.result.verdict = "deny"

----------------------------------------------------------------------------
(* The tools' results *)

\* The argument map names every key in keys with a string.
HasStrings(args, keys) ==
    /\ keys \subseteq DOMAIN args
    /\ \A key \in keys : args[key].kind = "str"

\* C17: for an allowed database, a query that runs and a cap max_rows >= 0,
\* sql_query returns the first max_rows rows with truncated = true when the
\* query yields more than max_rows rows, and all the rows with
\* truncated = false when it yields at most max_rows.
C17_MaxRows ==
    (/\ reply.op = "sql_query"
     /\ HasStrings(reply.args, {"db_path", "query"})
     /\ reply.ctx.max_rows # Null) =>
        LET resolved == Resolve(reply.args.db_path.chars)
            cap      == CtxGet(reply.ctx, "max_rows", IntVal(_DEFAULT_MAX_ROWS)).n
        IN (/\ \E a \in reply.ctx.sqlite_allow : Resolve(a) = resolved
            /\ resolved \in DOMAIN reply.before.files
            /\ reply.before.files[resolved].db
            /\ reply.args.query.chars # "bad") =>
               LET yielded == QueryRows(reply.args.query.chars,
                                        reply.before.files[resolved].rows)
               IN /\ reply.result.success
                  /\ IF Len(yielded) > cap
                     THEN /\ reply.result.result.rows = SubSeq(yielded, 1, cap)
                          /\ reply.result.result.truncated
                     ELSE /\ reply.result.result.rows = yielded
                          /\ ~reply.result.result.truncated

\* A query yielding three rows under a cap of two came back with two rows
\* and truncated set.
C17_Witness ==
    /\ reply.op = "sql_query"
    /\ reply.ctx.max_rows = IntVal(2)
    /\ reply.result.success
    /\ reply.result.result.truncated
    /\ reply.result.result.rows = <<"row1", "row2">>

\* C18: when the encoded content of a write_file call exceeds max_bytes the
\* tool returns success = false and the target file and its parent
\* directories are as they were; the filesystem changes only when the path
\* check and the size check both pass.
C18_MaxBytes ==
    reply.op = "write_file" =>
        LET sized == /\ HasStrings(reply.args, {"path", "content"})
                     /\ reply.ctx.max_bytes # Null
            cap   == CtxGet(reply.ctx, "max_bytes", IntVal(_DEFAULT_MAX_BYTES)).n
        IN /\ (sized /\ Len(Encode(reply.args.content.chars, 1)) > cap) =>
                 /\ ~reply.result.success
                 /\ disk = reply.before
           /\ disk # reply.before =>
                 /\ sized
                 /\ \E prefix \in reply.ctx.fs_allow_write :
                       StartsWith(Resolve(reply.args.path.chars), Resolve(prefix))
                 /\ Len(Encode(reply.args.content.chars, 1)) <= cap

\* Two characters that encode to three bytes were refused under a cap of
\* two bytes, for an allowed path whose directory does not exist, and the
\* directory was not made.
C18_Witness ==
    /\ reply.op = "write_file"
    /\ reply.ctx.max_bytes = IntVal(2)
    /\ HasStrings(reply.args, {"path", "content"})
    /\ reply.args.content.chars = <<"x", "é">>
    /\ reply.args.path.chars = <<"/", "w", "/", "n", "/", "a">>
    /\ ~reply.result.success
    /\ <<"/", "w", "/", "n">> \notin disk.dirs

\* C19: for a path that, canonicalized, matches no filesystem.allow_read
\* glob and is not in sqlite.allow, read_file and sql_query return
\* success = false and do not read or open that path.
C19_NoReadOutsideAllow ==
    LET key == IF reply.op = "read_file" THEN "path" ELSE "db_path" IN
    (/\ reply.op \in {"read_file", "sql_query"}
     /\ HasStrings(reply.args, IF reply.op = "read_file" THEN {"path"}
                                ELSE {"db_path", "query"})) =>
        LET resolved == Resolve(reply.args[key].chars)
        IN (/\ ~AnyMatch(resolved, reply.ctx.fs_allow_read)
            /\ resolved \notin reply.ctx.sqlite_allow) =>
               /\ ~reply.result.success
               /\ resolved \notin reply.io

\* C20: for every argument map and context, a built-in tool's run returns a
\* ToolOutput and raises no exception to its caller.
C20_ToolsNeverRaise ==
    reply.op \in {"read_file", "sql_query", "write_file"} => ~reply.result.raised

----------------------------------------------------------------------------
(* The adapter's translations *)

\* The tool_call object of a fenced block of the text, if it has one: a fence,
\* a well-formed object with a tool_call object that has a name, a fence.
FencedCalls(toks) ==
    {j \in 1 .. Len(toks) :
        /\ toks[j].t = "json" /\ toks[j].flaw = "none" /\ toks[j].v.kind = "obj"
        /\ "tool_call" \in DOMAIN toks[j].v.fields
        /\ toks[j].v.fields["tool_call"].kind = "obj"
        /\ "name" \in DOMAIN toks[j].v.fields["tool_call"].fields
        /\ \E i \in 1 .. j - 1 : toks[i].t = "fence" /\ SkipSpace(toks, i + 1) = j
        /\ SkipSpace(toks, j + 1) <= Len(toks)
        /\ toks[SkipSpace(toks, j + 1)].t = "fence"}

\* The text, blanks aside, is one object text (after the two repairs) that
\* has a name and arguments or parameters.
NamedObject(toks) ==
    LET cleaned == StripText(toks) IN
    /\ Len(cleaned) = 1
    /\ cleaned[1].t = "json"
    /\ cleaned[1].v.kind = "obj"
    /\ "name" \in DOMAIN cleaned[1].v.fields
    /\ {"arguments", "parameters"} \cap DOMAIN cleaned[1].v.fields # {}

\* C21: a reply is parsed by precedence: a structured tool_calls array gives
\* exactly those directives and the text stays content; otherwise a fenced
\* tool_call block gives one directive and the text before the block (or
\* null) as content; otherwise a text that is an object with a name and
\* arguments or parameters gives one directive and null content; otherwise
\* there is no directive and the content is the text.
C21_ReplyPrecedence ==
    (reply.op = "chat" /\ "data" \in DOMAIN reply /\ reply.data.content # Unset) =>
        LET toks  == reply.data.content.tokens
            calls == reply.data.tool_calls
            text  == IF toks = <<>> THEN Null ELSE Text(toks)
        IN /\ ~reply.result.raised
           /\ LET msg == reply.result.message IN
              IF Len(calls) > 0
              THEN /\ Len(msg.tool_calls) = Len(calls)
                   /\ \A i \in 1 .. Len(calls) :
                         msg.tool_calls[i].function.name = calls[i].name
                   /\ msg.content = text
              ELSE IF FencedCalls(toks) # {}
              THEN LET j == CHOOSE k \in FencedCalls(toks) : \A o \in FencedCalls(toks) : k <= o
                   IN /\ Len(msg.tool_calls) = 1
                      /\ Str(msg.tool_calls[1].function.name)
                             = toks[j].v.fields["tool_call"].fields["name"]
                      /\ msg.content # text
              ELSE IF NamedObject(toks)
              THEN /\ Len(msg.tool_calls) = 1
                   /\ msg.content = Null
              ELSE /\ Len(msg.tool_calls) = 0
                   /\ msg.content = text

\* C22: for a structured backend, an assistant message sent outbound and read
\* back inbound is a message with the same content and the same directives
\* (call id, function name, argument object), in the same order.
C22_RoundTrip ==
    (reply.op = "round_trip"
        /\ \A i \in 1 .. Len(reply.message.tool_calls) :
              IsDecodable(reply.message.tool_calls[i].function.arguments)) =>
        /\ ~reply.result.raised
        /\ LET sent == reply.message
               back == reply.result.message
           IN /\ back.content = sent.content
              /\ Len(back.tool_calls) = Len(sent.tool_calls)
              /\ \A i \in 1 .. Len(sent.tool_calls) :
                    /\ back.tool_calls[i].id = sent.tool_calls[i].id
                    /\ back.tool_calls[i].function.name = sent.tool_calls[i].function.name
                    /\ back.tool_calls[i].function.arguments.value
                           = sent.tool_calls[i].function.arguments.value

\* The outbound message of the payload that stands for message i of the
\* conversation (a system message carrying the tool prompt may come first).
SentFor(i) ==
    reply.result.payload.messages[i + Len(reply.result.payload.messages) - Len(reply.messages)]

\* The fenced block a directive is rewritten into.
BlockOf(tc) ==
    Json(Obj([tool_call |-> Obj([name |-> Str(tc.function.name),
                                 arguments |-> tc.function.arguments.value])]))

\* C23: in prompt-tools mode the outbound list has no tool-role message and
\* no tool_calls field; every tool-role message is sent as a user message
\* with content "Tool result: <payload>", and every directive of every
\* assistant message is in that message's content as a fenced JSON block.
C23_PromptToolsOutbound ==
    (reply.op = "chat" /\ PromptTools(reply.model, reply.tools) /\ ~reply.result.raised) =>
        /\ \A k \in 1 .. Len(reply.result.payload.messages) :
              /\ reply.result.payload.messages[k].role # "tool"
              /\ reply.result.payload.messages[k].tool_calls = <<>>
        /\ \A i \in 1 .. Len(reply.messages) :
              LET msg == reply.messages[i] IN
              /\ msg.role = "tool" =>
                    /\ SentFor(i).role = "user"
                    /\ SentFor(i).content
                         = Text(<<Word("Tool result:"), Space>> \o msg.content.tokens)
              /\ \A d \in 1 .. Len(msg.tool_calls) :
                    \E p \in 2 .. Len(SentFor(i).content.tokens) - 1 :
                        /\ SentFor(i).content.tokens[p] = BlockOf(msg.tool_calls[d])
                        /\ \E o \in 1 .. p - 1 : SentFor(i).content.tokens[o] = Fence
                        /\ \E c \in p + 1 .. Len(SentFor(i).content.tokens) :
                              SentFor(i).content.tokens[c] = Fence

----------------------------------------------------------------------------
(* Metrics *)

\* The durations of the requests of the entries: each request.end paired with
\* the latest request.start of its request_id before it.
PairedDurations(entries) ==
    LET Ends == {j \in 1 .. Len(entries) :
                    /\ entries[j].event = "request.end"
                    /\ \E i \in 1 .. j - 1 : /\ entries[i].event = "request.start"
                                             /\ entries[i].request_id = entries[j].request_id}
        StartOf(j) == CHOOSE i \in 1 .. j - 1 :
                         /\ entries[i].event = "request.start"
                         /\ entries[i].request_id = entries[j].request_id
                         /\ \A o \in i + 1 .. j - 1 :
                               ~(entries[o].event = "request.start"
                                 /\ entries[o].request_id = entries[j].request_id)
        ends == SelectSeq([j \in 1 .. Len(entries) |-> j], LAMBDA j : j \in Ends)
    IN SortSeq([k \in 1 .. Len(ends) |-> entries[ends[k]].ts - entries[StartOf(ends[k])].ts], <)

\* C24: compute_metrics pairs each request.start with the request.end of its
\* request_id and reports, for the n >= 1 sorted durations, count = n and as
\* p50, p95, p99 the duration at index min(floor(n * p), n - 1); for the ten
\* paired requests that last 1, 2, ..., 10 seconds the latency is
\* p50 = 5, p95 = 10, p99 = 10, count = 10.
C24_LatencyPercentiles ==
    reply.op = "compute_metrics" =>
        /\ reply.since = Null =>
              LET d == PairedDurations(reply.entries)
                  n == Len(d)
              IN n >= 1 =>
                    /\ reply.result.latency.count = n
                    /\ reply.result.latency.p50 = d[Min(Floor100(n, 50), n - 1) + 1]
                    /\ reply.result.latency.p95 = d[Min(Floor100(n, 95), n - 1) + 1]
                    /\ reply.result.latency.p99 = d[Min(Floor100(n, 99), n - 1) + 1]
        /\ (reply.entries = TenPaired /\ reply.since = Null) =>
              reply.result.latency = [p50 |-> 5, p95 |-> 10, p99 |-> 10, count |-> 10]

----------------------------------------------------------------------------
(* The manifest *)

\* The keys each recognized section of a manifest may hold.
KnownKeys ==
    [app |-> {"name", "version"}, runtime |-> {"base_url", "policy_mode"},
     policy |-> {"network", "tools", "data"}]

\* The document has a key that is not a field inside a recognized section.
KeysOf(v) == IF v.kind = "obj" THEN DOMAIN v.fields ELSE {}

UnknownInSection(document) ==
    \/ \E s \in DOMAIN KnownKeys \cap DOMAIN document.fields :
          KeysOf(document.fields[s]) \ KnownKeys[s] # {}
    \/ KeysOf(Section(Section(document, "policy"), "tools")) \ {"allow"} # {}
    \/ \E name \in KeysOf(Section(document, "tools")) :
          KeysOf(document.fields["tools"].fields[name])
              \ {"type", "read_only", "max_rows", "max_bytes"} # {}

\* The document without its keys that are not sections of a manifest.
TopLevelKeys ==
    {"app", "runtime", "policy", "models", "tools", "audit", "embedding", "vector_db"}

WithoutUnknownTop(document) ==
    Obj([k \in DOMAIN document.fields \cap TopLevelKeys |-> document.fields[k]])

\* C25: load_manifest ignores unknown top-level keys; it rejects, returning
\* no Manifest, every document with an unknown key inside a recognized
\* section; a missing file fails with NotFound and a document that is not a
\* mapping with InvalidShape.
C25_ManifestKeys ==
    reply.op = "load_manifest" =>
        IF reply.document = NoFile
        THEN ~reply.result.ok /\ reply.result.error = "FileNotFoundError"
        ELSE IF reply.document.kind # "obj"
        THEN ~reply.result.ok /\ reply.result.error = "ValueError"
        ELSE /\ reply.result = load_manifest(WithoutUnknownTop(reply.document))
             /\ UnknownInSection(reply.document) => ~reply.result.ok

\* C26: for every manifest that loads, also one that declares
\* tools.sql_query or tools.read_file without max_rows / max_bytes, the
\* context handed to a tool carries an integer max_rows and an integer
\* max_bytes.
C26_ContextCaps ==
    reply.op = "tool_context" =>
        /\ reply.ctx.max_rows.kind = "int"
        /\ reply.ctx.max_bytes.kind = "int"

----------------------------------------------------------------------------
(* The conversation handed to the adapter *)

\* The position of the first assistant message after position a, or one past
\* the end of the conversation.
NextAssistant(messages, a) ==
    LET later == {j \in a + 1 .. Len(messages) : messages[j].role = "assistant"} IN
    IF later = {} THEN Len(messages) + 1 ELSE CHOOSE j \in later : \A o \in later : j <= o

\* Each directive of each assistant message is answered, between that message
\* and the next assistant message, by exactly one tool-role message with its
\* id, and the answers stand in directive order right after the message.
Answered(messages) ==
    \A a \in 1 .. Len(messages) :
        messages[a].role = "assistant" =>
            LET calls == messages[a].tool_calls
                next  == NextAssistant(messages, a)
            IN /\ a + Len(calls) < next
               /\ \A k \in 1 .. Len(calls) :
                     /\ messages[a + k].role = "tool"
                     /\ messages[a + k].tool_call_id = calls[k].id
                     /\ Cardinality({j \in a + 1 .. next - 1 :
                                        /\ messages[j].role = "tool"
                                        /\ messages[j].tool_call_id = calls[k].id}) = 1
               /\ \A j \in a + Len(calls) + 1 .. next - 1 : messages[j].role # "tool"

\* C27: whenever run calls the adapter, every directive of every assistant
\* message of the conversation it passes is answered by exactly one tool-role
\* message with the directive's id, after that assistant message, in
\* directive order and before the next assistant message, whether the
\* directive was denied, failed or succeeded; the request's own message list
\* is as the client sent it.
C27_ConversationWellFormed ==
    \A r \in Requests :
        /\ run[r].pc = "await_chat" => Answered(run[r].messages)
        /\ run[r].pc # "idle" =>
              /\ run[r].request_messages = client_messages
              /\ \E k \in 0 .. 1 :
                    SubSeq(run[r].messages, k + 1, k + Len(client_messages)) = client_messages

----------------------------------------------------------------------------
(* The last iteration *)

\* C28: directives are processed on every iteration, the fifth included:
\* when the cap is hit, every directive of the returned message (and of every
\* earlier reply) has its policy.block entry, or its tool.call and
\* tool.result entries, in the log before request.end, so as many batches of
\* directives were processed as the model was called.
C28_LastBatchProcessed ==
    \A r \in Requests :
        (run[r].pc = "done" /\ Len(run[r].response.message.tool_calls) > 0) =>
            /\ Len(chat_calls[r]) = MAX_ITERATIONS
            /\ run[r].response.message = chat_calls[r][MAX_ITERATIONS]
            /\ \A s \in Sites(r) :
                  /\ \/ EventsAt(r, s[1], s[2], "policy.block") # {}
                     \/ /\ EventsAt(r, s[1], s[2], "tool.call") # {}
                        /\ EventsAt(r, s[1], s[2], "tool.result") # {}
                  /\ \A k \in EntriesAt(r, s[1], s[2]) : \A e \in EndsOf(r) : k < e
            /\ {origin[k].iter : k \in EntriesOf(r)} \ {0} = 1 .. Len(chat_calls[r])

\* The fifth reply carried an allowed and a denied directive; both were
\* processed and the reply was returned.
C28_Witness ==
    \E r \in Requests :
        /\ run[r].pc = "done"
        /\ Len(run[r].response.message.tool_calls) > 1
        /\ EventsAt(r, MAX_ITERATIONS, 1, "policy.block") # {}
        /\ EventsAt(r, MAX_ITERATIONS, 2, "tool.result") # {}

----------------------------------------------------------------------------
(* Unknown tools, failing tools, odd arguments *)

\* The directive a tool-role message at position j of request r's
\* conversation answers: the k-th of the latest assistant message before it.
AnsweredCall(r, j) ==
    LET msgs == run[r].messages
        a    == CHOOSE i \in 1 .. j - 1 :
                    /\ msgs[i].role = "assistant"
                    /\ \A o \in i + 1 .. j - 1 : msgs[o].role # "assistant"
    IN msgs[a].tool_calls[j - a]

\* C29: a tool-role payload "Unknown tool: <name>" is produced only when
\* <name> is not in the registry; a failure raised inside a registered tool's
\* run reaches the model with the failure's own message; in both cases the
\* tool.result entry and the tool-role message are written.
C29_UnknownToolOnlyWhenAbsent ==
    \A r \in Requests :
        /\ \A j \in 1 .. Len(run[r].messages) :
              (run[r].messages[j].role = "tool"
                  /\ run[r].messages[j].content = "error: Unknown tool") =>
                  AnsweredCall(r, j).function.name \notin Registered
        /\ \A s \in Sites(r) :
              (Processed(r, s) /\ run[r].pc # "invalid" /\ ~Denied(r, s)) =>
                  EventsAt(r, s[1], s[2], "tool.result") # {}

\* C30: whatever the directive's argument text is (not decodable, or JSON
\* that is not an object), run goes on with a map of arguments and does not
\* raise; the directive gets its policy check and audit entries and the
\* request reaches request.end.
C30_OddArgumentsTolerated ==
    \A r \in Requests :
        /\ run[r].pc # "invalid"
        /\ run[r].pc = "await_chat" => Sendable(run[r].messages, run[r].prompt_tools)
        /\ run[r].pc = "done" =>
              /\ EndsOf(r) # {}
              /\ \A s \in Sites(r) : EntriesAt(r, s[1], s[2]) # {}

====
